---- MODULE Spec2Model ----
(***************************************************************************)
(* Advice synthesis engine of the season-aware farming advisor.            *)
(*                                                                         *)
(* The module models AdviceService.generateAdvice (the orchestrator) with  *)
(* the functions it calls: coordinate / crop / additional-parameter        *)
(* validation, season detection, forecast summarisation, warning           *)
(* generation, the rule-based advisor and the parser of the external       *)
(* generator's response. A second specification calls the pure functions   *)
(* of the engine on their own, on inputs generateAdvice never passes them.  *)
(*                                                                         *)
(* JavaScript values are tagged records [t, n, s, a]: t is the type tag,   *)
(* n the number, s the string, a the array. Numbers are fixed point:       *)
(*   coordinates          in 1/10000 degree                                *)
(*   soil pH              in 1/100 pH unit                                 *)
(*   temperatures         in 1/100 degree (payload), 1/10 degree (summary) *)
(*   precipitation        in 1/100 mm (payload), 1/10 mm (summary)         *)
(*   wind speed           in 1/10 m/s (payload), whole km/h (summary)      *)
(***************************************************************************)
EXTENDS Integers, Sequences, FiniteSets, TLC

VARIABLES
    options,        \* the request handed to generateAdvice
    weatherApiKey,  \* WeatherService.apiKey is configured
    geminiApiKey,   \* GeminiService.apiKey is configured
    pc,             \* position of generateAdvice: start, awaitForecast, awaitGenerator, done, failed
    coords,         \* { lat, lon } resolved by validateAndSetCoordinates
    cropType,       \* options.crop.toLowerCase()
    additionalData, \* result of validateAdditionalData
    seasonInfo,     \* result of detectCurrentSeason
    forecastSummary,\* the summary, with its warnings field once attached
    weatherWarnings,\* the local weatherWarnings of generateAdvice
    useAI,          \* the local useAI of generateAdvice
    advice,         \* the advice object
    error,          \* message of the error thrown to the caller ("" when none)
    forecastCalls,  \* number of weatherService.getForecast calls started
    forecastOutcome,\* none, summarized, callFailed, summaryFailed: how the forecast step ended
    generatorCalls, \* number of geminiService.generateAdvice calls started
    generatorOutcome, \* none, parsed, unparsable, rejected: how the generator call ended
    generatorText,  \* the text the generator returned
    call,           \* a direct call of one function: its name and arguments
    result,         \* <<>> until the called function has returned, then <<its result>>
    other           \* the locals of a second request, suspended at an await or not yet begun

vars == <<options, weatherApiKey, geminiApiKey, pc, coords, cropType, additionalData,
          seasonInfo, forecastSummary, weatherWarnings, useAI, advice, error,
          forecastCalls, forecastOutcome, generatorCalls, generatorOutcome, generatorText,
          call, result, other>>

---------------------------------------------------------------------------
(* JavaScript values *)

JS(t, n, s, a) == [t |-> t, n |-> n, s |-> s, a |-> a]
Undefined == JS("undefined", 0, "", <<>>)
Null == JS("null", 0, "", <<>>)
NaN == JS("nan", 0, "", <<>>)
Num(n) == JS("number", n, "", <<>>)
Str(s) == JS("string", 0, s, <<>>)
Bool(b) == JS("boolean", IF b THEN 1 ELSE 0, "", <<>>)
Arr(a) == JS("array", 0, "", a)
Obj(s) == JS("object", 0, s, <<>>)

\* typeof v === 'number' (NaN is a number to typeof)
IsNumberType(v) == v.t \in {"number", "nan"}

\* ToBoolean(v): what `if (v)`, `!v` and `a && b` test
Truthy(v) ==
    CASE v.t \in {"undefined", "null", "nan"} -> FALSE
      [] v.t = "number" -> v.n # 0
      [] v.t = "string" -> v.s # ""
      [] v.t = "boolean" -> v.n = 1
      [] OTHER -> TRUE

\* v !== undefined && v !== null
IsGiven(v) == v.t \notin {"undefined", "null"}

\* String.prototype.toLowerCase on the strings of the model
ToLowerCase(s) ==
    CASE s = "MAIZE" -> "maize"
      [] s = "Beans" -> "beans"
      [] s = "Wheat" -> "wheat"
      [] s = "Flowering" -> "flowering"
      [] s = "FRUITING" -> "fruiting"
      [] s = "Ripe" -> "ripe"
      [] OTHER -> s

\* String.prototype.trim on the strings of the model
Trim(s) ==
    CASE s = "   " -> ""
      [] s = " sweet_corn " -> "sweet_corn"
      [] s = " bush_beans" -> "bush_beans"
      [] OTHER -> s

\* Number-to-string of a fixed-point number with `scale` units per one
\* (template literals print 36 for 36.0 and 36.5 for 36.5)
RECURSIVE Digits(_, _)
Digits(frac, scale) ==
    IF scale = 1 THEN ""
    ELSE ToString(frac \div (scale \div 10)) \o Digits(frac % (scale \div 10), scale \div 10)

RECURSIVE StripZeros(_, _)
StripZeros(frac, scale) ==
    IF frac % 10 = 0 /\ scale > 1 THEN StripZeros(frac \div 10, scale \div 10)
    ELSE Digits(frac, scale)

FormatFixed(x, scale) ==
    LET abs == IF x < 0 THEN -x ELSE x
        whole == abs \div scale
        frac == abs % scale
    IN (IF x < 0 THEN "-" ELSE "") \o ToString(whole)
       \o (IF frac = 0 THEN "" ELSE "." \o StripZeros(frac, scale))

\* Math.round of x/den for den > 0: the nearest integer, halves towards +infinity
MathRound(x, den) == (2 * x + den) \div (2 * den)

---------------------------------------------------------------------------
(* Configuration *)

defaultLat == -19441
defaultLon == 300619

temperatureMin == 10
temperatureMax == 35
windSpeedWarning == 20
windSpeedDanger == 40
rainfallHeavy == 15

CropNames == {"maize", "beans", "potatoes", "bananas"}

\* config.crops[name].soilPh, in 1/100 pH
CropSoilPh(name) ==
    CASE name = "maize" -> [min |-> 550, max |-> 750, optimal |-> 650]
      [] name = "beans" -> [min |-> 600, max |-> 750, optimal |-> 680]
      [] name = "potatoes" -> [min |-> 500, max |-> 650, optimal |-> 580]
      [] name = "bananas" -> [min |-> 550, max |-> 700, optimal |-> 620]

Variety(desc, dr) == [description |-> desc, droughtResistance |-> dr]

\* config.crops[name].varieties as a function from variety keys
CropVarieties(name) ==
    CASE name = "maize" ->
            [v \in {"hybrid_maize", "local_maize", "sweet_corn"} |->
                CASE v = "hybrid_maize" -> Variety("High-yield hybrid varieties", "moderate")
                  [] v = "local_maize" -> Variety("Traditional local varieties", "high")
                  [] v = "sweet_corn" -> Variety("Sweet corn varieties", "low")]
      [] name = "beans" ->
            [v \in {"climbing_beans", "bush_beans", "kidney_beans"} |->
                CASE v = "climbing_beans" -> Variety("Climbing bean varieties", "moderate")
                  [] v = "bush_beans" -> Variety("Bush bean varieties", "high")
                  [] v = "kidney_beans" -> Variety("Kidney bean varieties", "moderate")]
      [] name = "potatoes" ->
            [v \in {"irish_potato", "sweet_potato", "new_potato"} |->
                CASE v = "irish_potato" -> Variety("Traditional Irish potato", "moderate")
                  [] v = "sweet_potato" -> Variety("Sweet potato varieties", "high")
                  [] v = "new_potato" -> Variety("Early maturing varieties", "moderate")]
      [] name = "bananas" ->
            [v \in {"cavendish", "plantain", "lady_finger"} |->
                CASE v = "cavendish" -> Variety("Cavendish banana variety", "moderate")
                  [] v = "plantain" -> Variety("Plantain varieties", "high")
                  [] v = "lady_finger" -> Variety("Lady finger banana", "low")]

GrowthStateNames == {"germination", "vegetative", "flowering", "fruiting"}

\* config.growthStates[name]
GrowthStates(name) ==
    CASE name = "germination" ->
            [description |-> "Seed germination and early seedling stage", duration |-> "7-14 days"]
      [] name = "vegetative" ->
            [description |-> "Active growth of leaves and stems", duration |-> "30-60 days"]
      [] name = "flowering" ->
            [description |-> "Flower development and pollination", duration |-> "7-21 days"]
      [] name = "fruiting" ->
            [description |-> "Fruit development and maturation", duration |-> "30-90 days"]

\* config.seasons[season]
ConfigSeasons(season) ==
    CASE season = "shortDry" ->
            [start |-> "January", end |-> "February", description |-> "Short dry season"]
      [] season = "longRains" ->
            [start |-> "March", end |-> "May", description |-> "Long rainy season"]
      [] season = "longDry" ->
            [start |-> "June", end |-> "September", description |-> "Long dry season"]
      [] season = "shortRains" ->
            [start |-> "October", end |-> "December", description |-> "Short rainy season"]

---------------------------------------------------------------------------
(* weatherUtils *)

NegInfinity == -1000000000
PosInfinity == 1000000000

\* The season of a calendar month (1..12)
SeasonOfMonth(month) ==
    IF month >= 1 /\ month <= 2 THEN "shortDry"
    ELSE IF month >= 3 /\ month <= 5 THEN "longRains"
    ELSE IF month >= 6 /\ month <= 9 THEN "longDry"
    ELSE "shortRains"

SeasonDescription(season) ==
    CASE season = "shortDry" -> "Short dry season - January to February"
      [] season = "longRains" -> "Long rainy season - March to May"
      [] season = "longDry" -> "Long dry season - June to September"
      [] season = "shortRains" -> "Short rainy season - October to December"

\* detectCurrentSeason(), the clock's month given. The spread of
\* config.seasons[season] comes last and overwrites description.
detectCurrentSeason(month) ==
    LET season == SeasonOfMonth(month)
    IN [season |-> season,
        description |-> ConfigSeasons(season).description,
        currentMonth |-> month,
        start |-> ConfigSeasons(season).start,
        end |-> ConfigSeasons(season).end]

\* A forecast point { main: { temp }, rain: { '3h' }, wind: { speed } }
Point(hasMain, temp, hasRain, rain, hasWind, wind) ==
    [hasMain |-> hasMain, temp |-> temp, hasRain |-> hasRain, rain |-> rain,
     hasWind |-> hasWind, wind |-> wind]

\* A forecast payload { list, city: { coord: { lat, lon }, name } }
Payload(hasList, list, hasCity, lat, lon, name) ==
    [hasList |-> hasList, list |-> list, hasCity |-> hasCity,
     city |-> [lat |-> lat, lon |-> lon, name |-> name]]

Throw(msg) == [ok |-> FALSE, error |-> msg]
Return(v) == [ok |-> TRUE, value |-> v]

ZeroAcc ==
    [totalRainfall |-> 0, maxTemp |-> NegInfinity, minTemp |-> PosInfinity,
     maxWindSpeed |-> 0, rainHours |-> 0, heavyRainHours |-> 0, windHours |-> 0]

\* One turn of the forEach with the heavy-rain test `>` instead of `>=`
AccumulatePoint_HeavyStrict(acc, f) ==
    LET rained == f.hasRain /\ f.rain # 0
    IN [totalRainfall |-> IF rained THEN acc.totalRainfall + f.rain ELSE acc.totalRainfall,
        maxTemp |-> IF f.temp > acc.maxTemp THEN f.temp ELSE acc.maxTemp,
        minTemp |-> IF f.temp < acc.minTemp THEN f.temp ELSE acc.minTemp,
        maxWindSpeed |-> IF f.hasWind /\ f.wind > acc.maxWindSpeed THEN f.wind
                         ELSE acc.maxWindSpeed,
        rainHours |-> IF rained THEN acc.rainHours + 1 ELSE acc.rainHours,
        heavyRainHours |-> IF rained /\ f.rain > rainfallHeavy * 100
                           THEN acc.heavyRainHours + 1 ELSE acc.heavyRainHours,
        windHours |-> IF f.hasWind /\ f.wind >= windSpeedWarning * 10
                      THEN acc.windHours + 1 ELSE acc.windHours]

\* One turn of the forEach of summarizeForecast
AccumulatePoint(acc, f) ==
    LET rained == f.hasRain /\ f.rain # 0
    IN [totalRainfall |-> IF rained THEN acc.totalRainfall + f.rain ELSE acc.totalRainfall,
        maxTemp |-> IF f.temp > acc.maxTemp THEN f.temp ELSE acc.maxTemp,
        minTemp |-> IF f.temp < acc.minTemp THEN f.temp ELSE acc.minTemp,
        maxWindSpeed |-> IF f.hasWind /\ f.wind > acc.maxWindSpeed THEN f.wind
                         ELSE acc.maxWindSpeed,
        rainHours |-> IF rained THEN acc.rainHours + 1 ELSE acc.rainHours,
        heavyRainHours |-> IF rained /\ f.rain >= rainfallHeavy * 100
                           THEN acc.heavyRainHours + 1 ELSE acc.heavyRainHours,
        windHours |-> IF f.hasWind /\ f.wind >= windSpeedWarning * 10
                      THEN acc.windHours + 1 ELSE acc.windHours]

RECURSIVE Accumulate(_, _, _)
Accumulate(list, i, acc) ==
    IF i > Len(list) THEN acc
    ELSE Accumulate(list, i + 1, AccumulatePoint(acc, list[i]))

\* Kelvin to Celsius with one decimal: Math.round((t - 273.15) * 10) / 10
KelvinToCelsius(t) ==
    IF t = NegInfinity \/ t = PosInfinity THEN t
    ELSE MathRound(t - 27315, 10)

\* m/s to km/h: Math.round(speed * 3.6)
MsToKmh(speed) == MathRound(speed * 36, 100)

SelectTags(tags, keep) == SelectSeq(tags, LAMBDA t : t \in keep)

\* summarizeForecast(forecastData): Return(summary) or Throw(message)
summarizeForecast(forecastData) ==
    IF ~forecastData.hasList THEN Throw("Invalid forecast data received")
    ELSE LET forecasts == SubSeq(forecastData.list, 1,
                                 IF Len(forecastData.list) < 16
                                 THEN Len(forecastData.list) ELSE 16)
         IN IF \E i \in 1..Len(forecasts) : ~forecasts[i].hasMain
            THEN Throw("Cannot read properties of undefined (reading 'temp')")
            ELSE IF ~forecastData.hasCity
            THEN Throw("Cannot read properties of undefined (reading 'coord')")
            ELSE
            LET acc == Accumulate(forecasts, 1, ZeroAcc)
                maxTempC == KelvinToCelsius(acc.maxTemp)
                minTempC == KelvinToCelsius(acc.minTemp)
                keep == (IF acc.totalRainfall > 0 THEN {"rain"} ELSE {})
                        \cup (IF acc.heavyRainHours > 0 THEN {"heavy_rain"} ELSE {})
                        \cup (IF acc.windHours > 0 THEN {"wind"} ELSE {})
                        \cup (IF maxTempC > temperatureMax * 10
                              THEN {"high_temperature"} ELSE {})
                        \cup (IF minTempC < temperatureMin * 10
                              THEN {"low_temperature"} ELSE {})
            IN Return(
                [totalRainfall |-> MathRound(acc.totalRainfall, 10),
                 maxTemperature |-> maxTempC,
                 minTemperature |-> minTempC,
                 maxWindSpeed |-> MsToKmh(acc.maxWindSpeed),
                 rainHours |-> acc.rainHours,
                 heavyRainHours |-> acc.heavyRainHours,
                 windHours |-> acc.windHours,
                 conditions |-> SelectTags(<<"rain", "heavy_rain", "wind",
                                             "high_temperature", "low_temperature">>, keep),
                 forecastPeriod |-> "48 hours",
                 location |-> [lat |-> forecastData.city.lat,
                               lon |-> forecastData.city.lon,
                               name |-> forecastData.city.name],
                 warnings |-> Undefined])

\* A summary temperature (1/10 degree) as a template literal prints it
FormatTemp(t) ==
    IF t = NegInfinity THEN "-Infinity"
    ELSE IF t = PosInfinity THEN "Infinity"
    ELSE FormatFixed(t, 10)

NoRainWarning ==
    "No rainfall expected in the next 48 hours. Consider irrigation for water-dependent crops."

HighTemperatureWarning(t) ==
    "High temperature warning: " \o FormatTemp(t)
    \o "C expected. Consider shade protection for crops."

LowTemperatureWarning(t) ==
    "Low temperature warning: " \o FormatTemp(t)
    \o "C expected. Protect sensitive crops from cold."

DangerousWindWarning(w) ==
    "Dangerous wind conditions: " \o ToString(w)
    \o " km/h expected. Secure structures and protect crops."

WindWarning(w) ==
    "Wind warning: " \o ToString(w)
    \o " km/h expected. Consider wind protection for tall crops."

HeavyRainWarning(h) ==
    "Heavy rainfall expected: " \o ToString(h)
    \o " periods of heavy rain. Ensure proper drainage."

\* The warning generator with the two wind checks as independent ifs and the
\* danger threshold tested with `>`
generateWeatherWarnings_WindTwice(fs) ==
    (IF fs.maxTemperature > temperatureMax * 10
     THEN <<HighTemperatureWarning(fs.maxTemperature)>> ELSE <<>>)
    \o (IF fs.minTemperature < temperatureMin * 10
        THEN <<LowTemperatureWarning(fs.minTemperature)>> ELSE <<>>)
    \o (IF fs.maxWindSpeed > windSpeedDanger
        THEN <<DangerousWindWarning(fs.maxWindSpeed)>> ELSE <<>>)
    \o (IF fs.maxWindSpeed >= windSpeedWarning
        THEN <<WindWarning(fs.maxWindSpeed)>> ELSE <<>>)
    \o (IF fs.heavyRainHours > 0 THEN <<HeavyRainWarning(fs.heavyRainHours)>> ELSE <<>>)
    \o (IF fs.totalRainfall = 0 /\ fs.rainHours = 0 THEN <<NoRainWarning>> ELSE <<>>)

\* generateWeatherWarnings(forecastSummary): the list of warning strings
generateWeatherWarnings(fs) ==
    (IF fs.maxTemperature > temperatureMax * 10
     THEN <<HighTemperatureWarning(fs.maxTemperature)>> ELSE <<>>)
    \o (IF fs.minTemperature < temperatureMin * 10
        THEN <<LowTemperatureWarning(fs.minTemperature)>> ELSE <<>>)
    \o (IF fs.maxWindSpeed >= windSpeedDanger
        THEN <<DangerousWindWarning(fs.maxWindSpeed)>>
        ELSE IF fs.maxWindSpeed >= windSpeedWarning
        THEN <<WindWarning(fs.maxWindSpeed)>>
        ELSE <<>>)
    \o (IF fs.heavyRainHours > 0 THEN <<HeavyRainWarning(fs.heavyRainHours)>> ELSE <<>>)
    \o (IF fs.totalRainfall = 0 /\ fs.rainHours = 0 THEN <<NoRainWarning>> ELSE <<>>)

\* validateCoordinates(lat, lon)
validateCoordinates(lat, lon) ==
    /\ lat.t = "number" /\ lon.t = "number"
    /\ lat.n >= -900000 /\ lat.n <= 900000
    /\ lon.n >= -1800000 /\ lon.n <= 1800000

\* getDefaultCoordinates()
getDefaultCoordinates == [lat |-> Num(defaultLat), lon |-> Num(defaultLon)]

---------------------------------------------------------------------------
(* cropUtils *)

\* Keys every object literal inherits from Object.prototype: config.crops[k] and
\* crop.varieties[k] are truthy for them although k is no own key
ObjectPrototypeKeys == {"constructor", "toString", "valueOf", "hasOwnProperty"}

\* validateCropType(cropType): cropType && config.crops[cropType.toLowerCase()]
validateCropType(name) ==
    name # "" /\ ToLowerCase(name) \in CropNames \cup ObjectPrototypeKeys

\* getCropSoilPh(cropType): crop.soilPh || { min: 6.0, max: 7.0, optimal: 6.5 }
getCropSoilPh(name) ==
    IF ToLowerCase(name) \in CropNames THEN CropSoilPh(ToLowerCase(name))
    ELSE [min |-> 600, max |-> 700, optimal |-> 650]

\* A soil pH value as a template literal prints it
FormatPh(soilPh) == IF soilPh.t = "nan" THEN "NaN" ELSE FormatFixed(soilPh.n, 100)

\* The suitability test with the two ends of the range left out
isSoilPhSuitableForCrop_OpenRange(name, soilPh) ==
    LET cropPh == getCropSoilPh(name)
        isSuitable == soilPh.t = "number" /\ soilPh.n > cropPh.min /\ soilPh.n < cropPh.max
        tooAcidic == soilPh.t = "number" /\ soilPh.n < cropPh.min
    IN [suitable |-> isSuitable,
        message |->
            IF isSuitable
            THEN "Soil pH " \o FormatPh(soilPh) \o " is suitable for " \o name
            ELSE IF tooAcidic
            THEN "Soil pH " \o FormatPh(soilPh) \o " is too acidic for " \o name
                 \o ". Minimum required: " \o FormatFixed(cropPh.min, 100)
            ELSE "Soil pH " \o FormatPh(soilPh) \o " is too alkaline for " \o name
                 \o ". Maximum allowed: " \o FormatFixed(cropPh.max, 100),
        recommendation |->
            IF isSuitable THEN ""
            ELSE IF tooAcidic THEN "Consider adding lime to raise soil pH"
            ELSE "Consider adding sulfur or organic matter to lower soil pH"]

\* isSoilPhSuitableForCrop(cropType, soilPh), soilPh given (a number or NaN)
isSoilPhSuitableForCrop(name, soilPh) ==
    LET cropPh == getCropSoilPh(name)
        isSuitable == soilPh.t = "number" /\ soilPh.n >= cropPh.min /\ soilPh.n <= cropPh.max
        tooAcidic == soilPh.t = "number" /\ soilPh.n < cropPh.min
    IN [suitable |-> isSuitable,
        message |->
            IF isSuitable
            THEN "Soil pH " \o FormatPh(soilPh) \o " is suitable for " \o name
            ELSE IF tooAcidic
            THEN "Soil pH " \o FormatPh(soilPh) \o " is too acidic for " \o name
                 \o ". Minimum required: " \o FormatFixed(cropPh.min, 100)
            ELSE "Soil pH " \o FormatPh(soilPh) \o " is too alkaline for " \o name
                 \o ". Maximum allowed: " \o FormatFixed(cropPh.max, 100),
        recommendation |->
            IF isSuitable THEN ""
            ELSE IF tooAcidic THEN "Consider adding lime to raise soil pH"
            ELSE "Consider adding sulfur or organic matter to lower soil pH"]

\* getSoilPhCategory(soilPh): the category's description, "" for null
getSoilPhCategory(soilPh) ==
    IF soilPh.t # "number" THEN ""
    ELSE IF soilPh.n >= 400 /\ soilPh.n <= 500
    THEN "Very acidic soil, may need lime application"
    ELSE IF soilPh.n >= 510 /\ soilPh.n <= 600
    THEN "Acidic soil, suitable for acid-loving crops"
    ELSE IF soilPh.n >= 610 /\ soilPh.n <= 650
    THEN "Slightly acidic, good for most crops"
    ELSE IF soilPh.n >= 660 /\ soilPh.n <= 730
    THEN "Neutral pH, optimal for most crops"
    ELSE IF soilPh.n >= 740 /\ soilPh.n <= 780
    THEN "Slightly alkaline, may need acidification"
    ELSE IF soilPh.n >= 790 /\ soilPh.n <= 850
    THEN "Alkaline soil, may limit nutrient availability"
    ELSE ""

Resource(resource, purpose, quantity, cost, where) ==
    [resource |-> resource, purpose |-> purpose, quantity |-> quantity,
     cost_estimate |-> cost, where_to_get |-> where]

Disease(name, symptoms, risk, prevention, treatment, seasonal) ==
    [disease_name |-> name, symptoms |-> symptoms, risk_factors |-> risk,
     prevention |-> prevention, treatment |-> treatment, seasonal_risk |-> seasonal]

\* The lists one step of the advisor appends
Fragment(actions, resources, diseases, warnings, tips) ==
    [actions |-> actions, resources |-> resources, diseases |-> diseases,
     warnings |-> warnings, tips |-> tips]

NoFragment == Fragment(<<>>, <<>>, <<>>, <<>>, <<>>)

\* Step 1: soil pH
SoilPhFragment(name, soilPh) ==
    IF ~IsGiven(soilPh) THEN NoFragment
    ELSE LET suit == isSoilPhSuitableForCrop(name, soilPh)
             cat == getSoilPhCategory(soilPh)
         IN Fragment(
                IF ~suit.suitable /\ suit.recommendation # "" THEN <<suit.recommendation>>
                ELSE <<>>,
                <<>>, <<>>,
                IF ~suit.suitable THEN <<suit.message>> ELSE <<>>,
                (IF suit.suitable
                 THEN <<"Soil pH " \o FormatPh(soilPh) \o " is optimal for " \o name \o " growth">>
                 ELSE <<>>)
                \o (IF cat # "" THEN <<"Soil category: " \o cat>> ELSE <<>>))

SoilPhAnalysis(name, soilPh) ==
    IF ~IsGiven(soilPh) THEN ""
    ELSE "Soil pH " \o FormatPh(soilPh) \o " analysis: "
         \o isSoilPhSuitableForCrop(name, soilPh).message

GrowthStateActions(growthState) ==
    CASE growthState = "germination" ->
            <<"Ensure consistent soil moisture for seed germination",
              "Protect seedlings from extreme weather conditions">>
      [] growthState = "vegetative" ->
            <<"Provide adequate nitrogen for leaf and stem development",
              "Control weeds to reduce competition for nutrients">>
      [] growthState = "flowering" ->
            <<"Ensure adequate water during flowering to prevent flower drop",
              "Avoid spraying pesticides during flowering to protect pollinators">>
      [] growthState = "fruiting" ->
            <<"Provide balanced nutrition for fruit development",
              "Support heavy fruit clusters to prevent breakage">>
      [] OTHER -> <<>>

\* Step 2: growth state (a truthy growthState outside config.growthStates makes
\* getGrowthStateInfo throw: see BasicAdviceThrows)
GrowthFound(growthState) ==
    Truthy(growthState) /\ growthState.s \in GrowthStateNames \cup ObjectPrototypeKeys

\* getGrowthStateInfo(growthState) for a growth state config.growthStates[...] finds
getGrowthStateInfo(growthState) ==
    IF growthState \in GrowthStateNames THEN GrowthStates(growthState)
    ELSE [description |-> "undefined", duration |-> "undefined"]

GrowthFragment(growthState) ==
    IF ~GrowthFound(growthState) THEN NoFragment
    ELSE Fragment(GrowthStateActions(growthState.s), <<>>, <<>>, <<>>,
                  <<"Current growth stage: " \o getGrowthStateInfo(growthState.s).description
                    \o " (" \o getGrowthStateInfo(growthState.s).duration \o ")">>)

GrowthStageAdvice(growthState) ==
    IF ~GrowthFound(growthState) THEN ""
    ELSE "Growth stage " \o growthState.s \o ": "
         \o getGrowthStateInfo(growthState.s).description

\* variety && crop.varieties && crop.varieties[variety]
VarietyFound(name, variety) ==
    /\ Truthy(variety)
    /\ name \in CropNames
    /\ variety.s \in DOMAIN CropVarieties(name) \cup ObjectPrototypeKeys

VarietyInfo(name, variety) ==
    IF variety.s \in DOMAIN CropVarieties(name) THEN CropVarieties(name)[variety.s]
    ELSE Variety("undefined", "undefined")

\* Step 3: variety
VarietyFragment(name, variety, fs) ==
    IF ~VarietyFound(name, variety) THEN NoFragment
    ELSE LET info == VarietyInfo(name, variety)
             dry == info.droughtResistance = "low" /\ fs.totalRainfall = 0
         IN Fragment(
                IF dry THEN <<"Increase irrigation frequency for this variety">> ELSE <<>>,
                <<>>, <<>>,
                IF dry THEN <<"Low drought resistance variety selected during dry conditions">>
                ELSE <<>>,
                <<"Variety: " \o info.description,
                  "Drought resistance: " \o info.droughtResistance>>)

VarietyTips(name, variety) ==
    IF ~VarietyFound(name, variety) THEN ""
    ELSE "Variety " \o variety.s \o ": " \o VarietyInfo(name, variety).description
         \o " with " \o VarietyInfo(name, variety).droughtResistance \o " drought resistance"

\* The season block with the last case label misspelt
SeasonFragment_MisspeltCase(season) ==
    CASE season = Str("shortDry") ->
            Fragment(<<"Prepare irrigation systems for water-dependent crops",
                       "Apply mulch to retain soil moisture",
                       "Consider drought-resistant crop varieties">>,
                     <<Resource("Irrigation equipment", "Water delivery to crops",
                                "As needed based on field size", "50,000-200,000 RWF",
                                "Local agricultural supply stores"),
                       Resource("Organic mulch", "Soil moisture retention",
                                "2-3 tons per hectare", "15,000-25,000 RWF per ton",
                                "Local farms, agricultural cooperatives")>>,
                     <<>>, <<>>, <<>>)
      [] season = Str("longRains") ->
            Fragment(<<"Ensure proper drainage systems are in place",
                       "Plant crops that thrive in wet conditions",
                       "Monitor for fungal diseases due to high humidity">>,
                     <<Resource("Drainage materials", "Prevent waterlogging",
                                "As needed for field drainage", "20,000-50,000 RWF",
                                "Construction supply stores"),
                       Resource("Fungicides", "Prevent fungal diseases",
                                "2-3 applications per season",
                                "5,000-15,000 RWF per application",
                                "Agricultural chemical suppliers")>>,
                     <<>>, <<>>, <<>>)
      [] season = Str("longDry") ->
            Fragment(<<"Implement water conservation techniques",
                       "Use shade nets for sensitive crops",
                       "Focus on drought-tolerant crops">>,
                     <<Resource("Shade nets", "Protect crops from excessive sun",
                                "Cover entire field area", "30,000-80,000 RWF per hectare",
                                "Agricultural supply stores"),
                       Resource("Water storage containers", "Store collected rainwater",
                                "1000-5000 liters capacity", "25,000-100,000 RWF",
                                "Hardware stores, agricultural suppliers")>>,
                     <<>>, <<>>, <<>>)
      [] season = Str("short_rains") ->
            Fragment(<<"Take advantage of moisture for planting",
                       "Prepare for the upcoming dry season",
                       "Harvest crops before heavy rains">>,
                     <<Resource("Planting tools", "Efficient crop planting",
                                "1 set per farmer", "15,000-30,000 RWF",
                                "Agricultural tool stores"),
                       Resource("Harvesting equipment", "Timely crop harvesting",
                                "As needed for crop type", "10,000-50,000 RWF",
                                "Agricultural equipment suppliers")>>,
                     <<>>, <<>>, <<>>)
      [] OTHER -> NoFragment

\* Step 4: the season block (season is a JS value; no case matches undefined)
SeasonFragment(season) ==
    CASE season = Str("shortDry") ->
            Fragment(<<"Prepare irrigation systems for water-dependent crops",
                       "Apply mulch to retain soil moisture",
                       "Consider drought-resistant crop varieties">>,
                     <<Resource("Irrigation equipment", "Water delivery to crops",
                                "As needed based on field size", "50,000-200,000 RWF",
                                "Local agricultural supply stores"),
                       Resource("Organic mulch", "Soil moisture retention",
                                "2-3 tons per hectare", "15,000-25,000 RWF per ton",
                                "Local farms, agricultural cooperatives")>>,
                     <<>>, <<>>, <<>>)
      [] season = Str("longRains") ->
            Fragment(<<"Ensure proper drainage systems are in place",
                       "Plant crops that thrive in wet conditions",
                       "Monitor for fungal diseases due to high humidity">>,
                     <<Resource("Drainage materials", "Prevent waterlogging",
                                "As needed for field drainage", "20,000-50,000 RWF",
                                "Construction supply stores"),
                       Resource("Fungicides", "Prevent fungal diseases",
                                "2-3 applications per season",
                                "5,000-15,000 RWF per application",
                                "Agricultural chemical suppliers")>>,
                     <<>>, <<>>, <<>>)
      [] season = Str("longDry") ->
            Fragment(<<"Implement water conservation techniques",
                       "Use shade nets for sensitive crops",
                       "Focus on drought-tolerant crops">>,
                     <<Resource("Shade nets", "Protect crops from excessive sun",
                                "Cover entire field area", "30,000-80,000 RWF per hectare",
                                "Agricultural supply stores"),
                       Resource("Water storage containers", "Store collected rainwater",
                                "1000-5000 liters capacity", "25,000-100,000 RWF",
                                "Hardware stores, agricultural suppliers")>>,
                     <<>>, <<>>, <<>>)
      [] season = Str("shortRains") ->
            Fragment(<<"Take advantage of moisture for planting",
                       "Prepare for the upcoming dry season",
                       "Harvest crops before heavy rains">>,
                     <<Resource("Planting tools", "Efficient crop planting",
                                "1 set per farmer", "15,000-30,000 RWF",
                                "Agricultural tool stores"),
                       Resource("Harvesting equipment", "Timely crop harvesting",
                                "As needed for crop type", "10,000-50,000 RWF",
                                "Agricultural equipment suppliers")>>,
                     <<>>, <<>>, <<>>)
      [] OTHER -> NoFragment

\* The weather block with the wind check as the else branch of the heavy-rain check
WeatherFragment_ElseIf(fs) ==
    Fragment(
        (IF fs.totalRainfall = 0
         THEN <<"Schedule irrigation for water-dependent crops",
                "Check soil moisture levels regularly">>
         ELSE <<>>)
        \o (IF fs.heavyRainHours > 0
            THEN <<"Secure any loose structures or equipment",
                   "Ensure drainage channels are clear">>
            ELSE <<>>)
        \o (IF fs.heavyRainHours = 0 /\ fs.maxWindSpeed >= windSpeedWarning
            THEN <<"Provide wind protection for tall crops",
                   "Secure trellises and support structures">>
            ELSE <<>>),
        (IF fs.totalRainfall = 0
         THEN <<Resource("Soil moisture meter", "Monitor soil water content", "1 per field",
                         "8,000-15,000 RWF", "Agricultural supply stores")>>
         ELSE <<>>)
        \o (IF fs.heavyRainHours > 0
            THEN <<Resource("Drainage tools", "Clear drainage channels", "1 set per field",
                            "5,000-12,000 RWF", "Hardware stores")>>
            ELSE <<>>)
        \o (IF fs.heavyRainHours = 0 /\ fs.maxWindSpeed >= windSpeedWarning
            THEN <<Resource("Wind barriers", "Protect crops from wind damage",
                            "Perimeter of field", "20,000-60,000 RWF per hectare",
                            "Agricultural supply stores")>>
            ELSE <<>>),
        <<>>, <<>>, <<>>)

\* Step 5: the weather block
WeatherFragment(fs) ==
    Fragment(
        (IF fs.totalRainfall = 0
         THEN <<"Schedule irrigation for water-dependent crops",
                "Check soil moisture levels regularly">>
         ELSE <<>>)
        \o (IF fs.heavyRainHours > 0
            THEN <<"Secure any loose structures or equipment",
                   "Ensure drainage channels are clear">>
            ELSE <<>>)
        \o (IF fs.maxWindSpeed >= windSpeedWarning
            THEN <<"Provide wind protection for tall crops",
                   "Secure trellises and support structures">>
            ELSE <<>>),
        (IF fs.totalRainfall = 0
         THEN <<Resource("Soil moisture meter", "Monitor soil water content", "1 per field",
                         "8,000-15,000 RWF", "Agricultural supply stores")>>
         ELSE <<>>)
        \o (IF fs.heavyRainHours > 0
            THEN <<Resource("Drainage tools", "Clear drainage channels", "1 set per field",
                            "5,000-12,000 RWF", "Hardware stores")>>
            ELSE <<>>)
        \o (IF fs.maxWindSpeed >= windSpeedWarning
            THEN <<Resource("Wind barriers", "Protect crops from wind damage",
                            "Perimeter of field", "20,000-60,000 RWF per hectare",
                            "Agricultural supply stores")>>
            ELSE <<>>),
        <<>>, <<>>, <<>>)

\* season === 'longRains' ? a : b
Risk(season, a, b) == IF season = Str("longRains") THEN a ELSE b

\* Step 6: the crop block
CropFragment(name, season) ==
    CASE ToLowerCase(name) = "maize" ->
            Fragment(<<>>,
                     <<Resource("Nitrogen fertilizer (NPK)",
                                "Provide essential nutrients for growth",
                                "200-300 kg per hectare", "80,000-120,000 RWF per hectare",
                                "Agricultural cooperatives, fertilizer suppliers"),
                       Resource("Weed control herbicides", "Control competing weeds",
                                "2-3 applications per season",
                                "15,000-25,000 RWF per application",
                                "Agricultural chemical suppliers")>>,
                     <<Disease("Maize Lethal Necrosis",
                               "Yellowing leaves, stunted growth, poor grain development",
                               "High humidity, poor drainage, infected seeds",
                               "Use certified seeds, maintain field hygiene, proper spacing",
                               "Remove infected plants, apply fungicides if early detected",
                               Risk(season, "High", "Medium")),
                       Disease("Common Rust",
                               "Reddish-brown pustules on leaves, reduced photosynthesis",
                               "High humidity, dense planting, poor air circulation",
                               "Plant resistant varieties, maintain proper spacing",
                               "Apply fungicides, remove infected plant debris",
                               Risk(season, "High", "Low"))>>,
                     <<>>,
                     <<"Plant in rows with proper spacing (75cm between rows)",
                       "Apply nitrogen fertilizer in split applications",
                       "Control weeds early in the growing season">>)
      [] ToLowerCase(name) = "beans" ->
            Fragment(<<>>,
                     <<Resource("Trellis materials", "Support climbing bean varieties",
                                "Poles and strings for entire field",
                                "25,000-50,000 RWF per hectare",
                                "Local hardware stores, agricultural suppliers"),
                       Resource("Organic compost", "Improve soil fertility and structure",
                                "5-10 tons per hectare", "20,000-40,000 RWF per ton",
                                "Local farms, agricultural cooperatives")>>,
                     <<Disease("Bean Anthracnose", "Dark, sunken lesions on pods and stems",
                               "Wet weather, poor air circulation, infected seeds",
                               "Use disease-free seeds, crop rotation, proper spacing",
                               "Remove infected plants, apply copper-based fungicides",
                               Risk(season, "High", "Medium")),
                       Disease("Bean Rust", "Orange-brown pustules on leaves, defoliation",
                               "High humidity, dense planting, poor drainage",
                               "Plant resistant varieties, maintain field hygiene",
                               "Apply fungicides, remove infected debris",
                               Risk(season, "High", "Low"))>>,
                     <<>>,
                     <<"Use trellises for climbing varieties",
                       "Plant in well-drained soil with good organic matter",
                       "Harvest pods when they are young and tender">>)
      [] ToLowerCase(name) = "potatoes" ->
            Fragment(<<>>,
                     <<Resource("Potato hilling tools",
                                "Build soil mounds around potato plants",
                                "1 set per farmer", "8,000-15,000 RWF",
                                "Agricultural tool stores"),
                       Resource("Insecticides", "Control potato beetles and other pests",
                                "2-3 applications per season",
                                "12,000-20,000 RWF per application",
                                "Agricultural chemical suppliers")>>,
                     <<Disease("Late Blight",
                               "Dark lesions on leaves and stems, rapid plant death",
                               "Cool, wet weather, poor air circulation",
                               "Plant resistant varieties, proper spacing, avoid overhead irrigation",
                               "Apply copper-based fungicides, remove infected plants",
                               Risk(season, "High", "Low")),
                       Disease("Early Blight", "Brown spots with concentric rings on leaves",
                               "Warm, humid weather, poor nutrition",
                               "Maintain plant health, proper fertilization, crop rotation",
                               "Apply fungicides, remove infected leaves",
                               Risk(season, "Medium", "Low"))>>,
                     <<>>,
                     <<"Plant in loose, well-drained soil",
                       "Hill soil around plants as they grow",
                       "Control potato beetles and other pests">>)
      [] ToLowerCase(name) = "bananas" ->
            Fragment(<<>>,
                     <<Resource("Banana props", "Support heavy fruit bunches",
                                "1 prop per bearing plant", "2,000-5,000 RWF each",
                                "Local craftsmen, agricultural suppliers"),
                       Resource("Potassium fertilizer",
                                "Essential for banana fruit development",
                                "300-500 kg per hectare", "90,000-150,000 RWF per hectare",
                                "Agricultural cooperatives, fertilizer suppliers")>>,
                     <<Disease("Panama Disease (Fusarium Wilt)",
                               "Yellowing leaves, wilting, plant death",
                               "Infected soil, poor drainage, monoculture",
                               "Use disease-free planting material, crop rotation, good drainage",
                               "Remove infected plants, soil fumigation if severe",
                               Risk(season, "High", "Medium")),
                       Disease("Black Sigatoka",
                               "Dark streaks on leaves, reduced fruit quality",
                               "High humidity, poor air circulation, dense planting",
                               "Maintain proper spacing, remove infected leaves, fungicide application",
                               "Apply systemic fungicides, remove infected leaves",
                               Risk(season, "High", "Medium"))>>,
                     <<>>,
                     <<"Provide regular watering and fertilization",
                       "Remove suckers to maintain single stem",
                       "Support heavy bunches with props">>)
      [] OTHER -> NoFragment

\* Step 7: the summary's own warnings, when the field is truthy
ForecastWarningsFragment(fs) ==
    Fragment(<<>>, <<>>, <<>>, IF fs.warnings.t = "array" THEN fs.warnings.a ELSE <<>>, <<>>)

NoMetadata ==
    [generated_at |-> Undefined, source |-> Undefined, weather_data |-> Undefined,
     additional_data |-> Undefined, prompt_version |-> Undefined, location |-> Undefined,
     season_info |-> Undefined, weather_service_available |-> Undefined,
     ai_service_available |-> Undefined, advice_source |-> Undefined,
     api_version |-> Undefined]

\* getCropInfo throws for a crop that config.crops does not hold; getGrowthStateInfo
\* throws for a truthy growth state that config.growthStates does not hold
BasicAdviceThrows(name, additional) ==
    \/ ToLowerCase(name) \notin CropNames \cup ObjectPrototypeKeys
    \/ /\ Truthy(additional.growthState)
       /\ additional.growthState.s \notin GrowthStateNames \cup ObjectPrototypeKeys

\* The advisor with a default value for its season parameter
generateBasicSeasonalAdvice_SeasonDefault(name, season, fs, additional) ==
    LET passed == IF season = Undefined THEN Str("longRains") ELSE season
        steps == <<SoilPhFragment(name, additional.soilPh),
                   GrowthFragment(additional.growthState),
                   VarietyFragment(name, additional.variety, fs),
                   SeasonFragment(passed),
                   WeatherFragment(fs),
                   CropFragment(name, passed),
                   ForecastWarningsFragment(fs)>>
        Cat(f) == f[1] \o f[2] \o f[3] \o f[4] \o f[5] \o f[6] \o f[7]
    IN [forecast_summary |->
            Str("Weather forecast for next 48 hours: " \o FormatFixed(fs.totalRainfall, 10)
                \o "mm rainfall, " \o FormatTemp(fs.minTemperature) \o "C to "
                \o FormatTemp(fs.maxTemperature) \o "C, wind up to "
                \o ToString(fs.maxWindSpeed) \o " km/h"),
        season |-> passed,
        crop |-> Str(name),
        soil_ph_analysis |-> Str(SoilPhAnalysis(name, additional.soilPh)),
        growth_stage_advice |-> Str(GrowthStageAdvice(additional.growthState)),
        variety_specific_tips |-> Str(VarietyTips(name, additional.variety)),
        actions |-> Arr(Cat([i \in 1..7 |-> steps[i].actions])),
        resources_needed |-> Arr(Cat([i \in 1..7 |-> steps[i].resources])),
        possible_diseases |-> Arr(Cat([i \in 1..7 |-> steps[i].diseases])),
        warnings |-> Arr(Cat([i \in 1..7 |-> steps[i].warnings])),
        productivity_tips |-> Arr(Cat([i \in 1..7 |-> steps[i].tips])),
        metadata |-> NoMetadata]

\* generateBasicSeasonalAdvice(cropType, season, forecastSummary, additionalData)
generateBasicSeasonalAdvice(name, season, fs, additional) ==
    LET steps == <<SoilPhFragment(name, additional.soilPh),
                   GrowthFragment(additional.growthState),
                   VarietyFragment(name, additional.variety, fs),
                   SeasonFragment(season),
                   WeatherFragment(fs),
                   CropFragment(name, season),
                   ForecastWarningsFragment(fs)>>
        Cat(f) == f[1] \o f[2] \o f[3] \o f[4] \o f[5] \o f[6] \o f[7]
    IN [forecast_summary |->
            Str("Weather forecast for next 48 hours: " \o FormatFixed(fs.totalRainfall, 10)
                \o "mm rainfall, " \o FormatTemp(fs.minTemperature) \o "C to "
                \o FormatTemp(fs.maxTemperature) \o "C, wind up to "
                \o ToString(fs.maxWindSpeed) \o " km/h"),
        season |-> season,
        crop |-> Str(name),
        soil_ph_analysis |-> Str(SoilPhAnalysis(name, additional.soilPh)),
        growth_stage_advice |-> Str(GrowthStageAdvice(additional.growthState)),
        variety_specific_tips |-> Str(VarietyTips(name, additional.variety)),
        actions |-> Arr(Cat([i \in 1..7 |-> steps[i].actions])),
        resources_needed |-> Arr(Cat([i \in 1..7 |-> steps[i].resources])),
        possible_diseases |-> Arr(Cat([i \in 1..7 |-> steps[i].diseases])),
        warnings |-> Arr(Cat([i \in 1..7 |-> steps[i].warnings])),
        productivity_tips |-> Arr(Cat([i \in 1..7 |-> steps[i].tips])),
        metadata |-> NoMetadata]

---------------------------------------------------------------------------
(* geminiService *)

\* The generator's text is a sequence of tokens: "{", "}", a stretch of other
\* text ("noise"), a stretch that is a JSON value by itself ("json", as in 123), or
\* one "key": value member of an object
Tok(c, k, v) == [c |-> c, k |-> k, v |-> v]
LBrace == Tok("{", "", Undefined)
RBrace == Tok("}", "", Undefined)
Noise == Tok("noise", "", Undefined)
JsonText == Tok("json", "", Undefined)
Member(k, v) == Tok("field", k, v)

\* String.prototype.indexOf / lastIndexOf of a brace, 1-based, 0 for -1
IndexOf(text, tok) ==
    IF \E i \in 1..Len(text) : text[i] = tok
    THEN CHOOSE i \in 1..Len(text) : text[i] = tok /\ \A j \in 1..(i - 1) : text[j] # tok
    ELSE 0

LastIndexOf(text, tok) ==
    IF \E i \in 1..Len(text) : text[i] = tok
    THEN CHOOSE i \in 1..Len(text) :
            text[i] = tok /\ \A j \in (i + 1)..Len(text) : text[j] # tok
    ELSE 0

\* JSON.parse accepts a span that is "{", members, "}"
IsJsonObject(span) ==
    /\ Len(span) >= 2
    /\ span[1] = LBrace
    /\ span[Len(span)] = RBrace
    /\ \A i \in 2..(Len(span) - 1) : span[i].c = "field"

\* JSON.parse accepts a span that is one JSON value without braces: the value is
\* no object, and every property read of it is undefined
IsJsonLiteral(span) == span = <<JsonText>>

AdviceKeys ==
    {"forecast_summary", "season", "crop", "soil_ph_analysis", "growth_stage_advice",
     "variety_specific_tips", "actions", "resources_needed", "possible_diseases",
     "warnings", "productivity_tips"}

\* The value JSON.parse gives key k: that of its last member, undefined without one
MemberValue(span, k) ==
    LET at == {i \in 2..(Len(span) - 1) : span[i].k = k}
    IN IF at = {} THEN Undefined
       ELSE span[CHOOSE i \in at : \A j \in at : j <= i].v

requiredFields ==
    <<"forecast_summary", "season", "crop", "actions", "warnings", "productivity_tips">>

\* missingFields.join(', ')
RECURSIVE JoinFields(_)
JoinFields(fields) ==
    IF Len(fields) = 0 THEN ""
    ELSE IF Len(fields) = 1 THEN fields[1]
    ELSE fields[1] \o ", " \o JoinFields(Tail(fields))

\* Array.isArray(v) ? v : []
EnsureArray(v) == IF v.t = "array" THEN v ELSE Arr(<<>>)

\* parseAIResponse(aiResponse, forecastSummary, season, cropType, additionalData):
\* Return(advice) or Throw(message)
parseAIResponse(aiResponse, fs, season, name, additional) ==
    LET jsonStart == IndexOf(aiResponse, LBrace)
        jsonEnd == LastIndexOf(aiResponse, RBrace)
    IN IF jsonStart = 0 \/ jsonEnd = 0
       THEN Throw("Failed to parse AI response: No JSON found in AI response")
       ELSE
       \* substring(start, end) swaps its arguments when start > end
       LET jsonString == IF jsonStart <= jsonEnd
                         THEN SubSeq(aiResponse, jsonStart, jsonEnd)
                         ELSE SubSeq(aiResponse, jsonEnd + 1, jsonStart - 1)
       IN IF ~IsJsonObject(jsonString) /\ ~IsJsonLiteral(jsonString)
          THEN Throw("Failed to parse AI response: Unexpected token")
          ELSE
          LET parsed == [k \in AdviceKeys |->
                            IF IsJsonObject(jsonString) THEN MemberValue(jsonString, k)
                            ELSE Undefined]
              missingFields == SelectSeq(requiredFields, LAMBDA f : ~Truthy(parsed[f]))
          IN IF Len(missingFields) > 0
             THEN Throw("Failed to parse AI response: Missing required fields in AI response: "
                        \o JoinFields(missingFields))
             ELSE Return(
                [forecast_summary |-> parsed["forecast_summary"],
                 season |-> parsed["season"],
                 crop |-> parsed["crop"],
                 soil_ph_analysis |-> parsed["soil_ph_analysis"],
                 growth_stage_advice |-> parsed["growth_stage_advice"],
                 variety_specific_tips |-> parsed["variety_specific_tips"],
                 actions |-> EnsureArray(parsed["actions"]),
                 resources_needed |-> parsed["resources_needed"],
                 possible_diseases |-> parsed["possible_diseases"],
                 warnings |-> EnsureArray(parsed["warnings"]),
                 productivity_tips |-> EnsureArray(parsed["productivity_tips"]),
                 metadata |-> [NoMetadata EXCEPT
                                 !.generated_at = Str("now"),
                                 !.source = Str("gemini_ai"),
                                 !.weather_data = Obj("forecastSummary"),
                                 !.additional_data = Obj("additionalData"),
                                 !.prompt_version = Str("2.0")]])

\* GeminiService.isAvailable(): !!this.apiKey
geminiIsAvailable == geminiApiKey

\* WeatherService.isAvailable(): !!this.apiKey
weatherIsAvailable == weatherApiKey

---------------------------------------------------------------------------
(* adviceService *)

\* validateAndSetCoordinates(lat, lon)
validateAndSetCoordinates(lat, lon) ==
    IF Truthy(lat) /\ Truthy(lon)
    THEN IF ~validateCoordinates(lat, lon) THEN Throw("Invalid coordinates provided")
         ELSE Return([lat |-> lat, lon |-> lon])
    ELSE Return(getDefaultCoordinates)

\* The crop checks of generateAdvice: Return(cropType) or Throw(message)
ValidateCrop(crop) ==
    IF ~Truthy(crop) THEN Throw("Crop type is required")
    ELSE IF crop.t # "string" THEN Throw("options.crop.toLowerCase is not a function")
    ELSE IF ~validateCropType(ToLowerCase(crop.s))
    THEN Throw("Unsupported crop type: " \o ToLowerCase(crop.s)
               \o ". Supported crops: maize, beans, potatoes, bananas")
    ELSE Return(ToLowerCase(crop.s))

SoilPhMessage == "Soil pH must be a number between 4.0 and 8.5"
GrowthStateMessage ==
    "Invalid growth state. Must be one of: germination, vegetative, flowering, fruiting"
VarietyMessage == "Variety must be a non-empty string"

\* The soil pH check of validateAdditionalData fails
SoilPhRejected(soilPh) ==
    IsGiven(soilPh) /\ (~IsNumberType(soilPh) \/ (soilPh.t = "number" /\ soilPh.n < 400)
                        \/ (soilPh.t = "number" /\ soilPh.n > 850))

\* validateAdditionalData(options): Return(additionalData) or Throw(message)
validateAdditionalData(opts) ==
    IF SoilPhRejected(opts.soilPh) THEN Throw(SoilPhMessage)
    ELSE IF Truthy(opts.growthState) /\ opts.growthState.t # "string"
    THEN Throw("options.growthState.toLowerCase is not a function")
    ELSE IF Truthy(opts.growthState) /\ ToLowerCase(opts.growthState.s) \notin GrowthStateNames
    THEN Throw(GrowthStateMessage)
    ELSE IF Truthy(opts.variety) /\ (opts.variety.t # "string" \/ Trim(opts.variety.s) = "")
    THEN Throw(VarietyMessage)
    ELSE Return(
        [soilPh |-> IF IsGiven(opts.soilPh) THEN opts.soilPh ELSE Undefined,
         growthState |-> IF Truthy(opts.growthState)
                         THEN Str(ToLowerCase(opts.growthState.s)) ELSE Undefined,
         variety |-> IF Truthy(opts.variety) THEN Str(Trim(opts.variety.s)) ELSE Undefined])

\* Steps 1-3 of generateAdvice in their order: the first error thrown, or the
\* validated request
ValidateRequest(opts) ==
    LET c == validateAndSetCoordinates(opts.lat, opts.lon)
        crop == ValidateCrop(opts.crop)
        add == validateAdditionalData(opts)
    IN IF ~c.ok THEN c
       ELSE IF ~crop.ok THEN crop
       ELSE IF ~add.ok THEN add
       ELSE Return([coords |-> c.value, cropType |-> crop.value, additionalData |-> add.value])

\* The summary substituted when the forecast step fails
NeutralSummary(lat, lon) ==
    [totalRainfall |-> 0, maxTemperature |-> 250, minTemperature |-> 150,
     maxWindSpeed |-> 10, rainHours |-> 0, heavyRainHours |-> 0, windHours |-> 0,
     conditions |-> <<"unknown">>, forecastPeriod |-> "48 hours",
     location |-> [lat |-> lat, lon |-> lon, name |-> "Unknown"],
     warnings |-> Undefined]

\* The wrapper of the outer catch of generateAdvice
WrapError(msg) == "Failed to generate advice: " \o msg

\* options.useAI && this.geminiService.isAvailable(): a request that leaves
\* useAI out gets no generator call
DecideUseAI_Truthy(opts) == Truthy(opts.useAI) /\ geminiIsAvailable

\* options.useAI !== false && this.geminiService.isAvailable()
DecideUseAI(opts) == opts.useAI # Bool(FALSE) /\ geminiIsAvailable

\* The advice_source tag of the metadata stamp
AdviceSource(ai) == IF ai THEN "gemini_ai" ELSE "basic_seasonal"

\* The metadata stamp of generateAdvice: { ...advice.metadata, generated_at, ... }
StampMetadata(adv, ai, c, season, additional) ==
    [adv EXCEPT !.metadata =
        [@ EXCEPT !.generated_at = Str("now"),
                  !.location = c,
                  !.season_info = season,
                  !.weather_service_available = Bool(weatherIsAvailable),
                  !.ai_service_available = Bool(geminiIsAvailable),
                  !.advice_source = Str(AdviceSource(ai)),
                  !.additional_data = additional,
                  !.api_version = Str("1.0.0")]]

\* The weather warnings put behind the generator's
MergeWarnings_Appended(ww, adv) ==
    IF Len(ww) > 0 THEN [adv EXCEPT !.warnings = Arr(adv.warnings.a \o ww)] ELSE adv

\* Add weather warnings to AI advice
MergeWarnings(ww, adv) ==
    IF Len(ww) > 0 THEN [adv EXCEPT !.warnings = Arr(ww \o adv.warnings.a)] ELSE adv

NoAdvice ==
    [forecast_summary |-> Undefined, season |-> Undefined, crop |-> Undefined,
     soil_ph_analysis |-> Undefined, growth_stage_advice |-> Undefined,
     variety_specific_tips |-> Undefined, actions |-> Undefined,
     resources_needed |-> Undefined, possible_diseases |-> Undefined,
     warnings |-> Undefined, productivity_tips |-> Undefined, metadata |-> NoMetadata]

---------------------------------------------------------------------------
(* Requests, provider payloads and generator texts of the model *)

MaxPoints == 2
MaxAIWarnings == 2

LatValues == {Undefined, Num(0), Num(125000), Num(910000)}
LonValues == {Undefined, Num(300000), Num(1810000)}
CropValues == {Undefined, Str("maize"), Str("Beans"), Str("Wheat")}
SoilPhValues == {Undefined, Num(650), Num(390), NaN}
GrowthStateValues == {Undefined, Str("Flowering"), Str("Ripe")}
VarietyValues == {Undefined, Str(" sweet_corn "), Str("   "), Str("")}
UseAIValues == {Undefined, Bool(TRUE), Bool(FALSE)}
Months == {3, 10}

Requests ==
    [lat : LatValues, lon : LonValues, crop : CropValues, soilPh : SoilPhValues,
     growthState : GrowthStateValues, variety : VarietyValues, useAI : UseAIValues]

\* The requests of the fair specification: valid ones of every shape of the
\* additional parameters, and an unsupported crop
FairRequests ==
    [lat : {Undefined, Num(125000)}, lon : {Num(300000)},
     crop : {Str("maize"), Str("Wheat")}, soilPh : {Undefined, Num(650)},
     growthState : {Str("Flowering")}, variety : {Undefined, Str(" sweet_corn ")},
     useAI : {Undefined, Bool(FALSE)}]

\* Forecast points: a mild dry interval, a hot storm interval (20 mm, 12 m/s), and
\* an interval whose temperature is in Celsius as `units: 'metric'` returns it
SamplePoints ==
    {Point(TRUE, 29815, FALSE, 0, TRUE, 30),
     Point(TRUE, 31015, TRUE, 2000, TRUE, 120),
     Point(TRUE, 2500, TRUE, 0, FALSE, 0)}

PointLists == UNION {[1..n -> SamplePoints] : n \in 0..MaxPoints}

\* What the provider can answer for (lat, lon): a payload with its list and city,
\* one without a list, one without a city, one with a point without `main`
ForecastPayloads(lat, lon) ==
    {Payload(TRUE, l, TRUE, lat, lon, "Kigali") : l \in PointLists}
    \cup {Payload(FALSE, <<>>, TRUE, lat, lon, "Kigali"),
          Payload(TRUE, <<Point(TRUE, 29815, FALSE, 0, TRUE, 30)>>, FALSE, lat, lon, ""),
          Payload(TRUE, <<Point(FALSE, 0, FALSE, 0, FALSE, 0)>>, TRUE, lat, lon, "Kigali")}

AIWarningStrings == {"AI warning: pest pressure", "AI warning: late blight risk"}
AIWarningLists == UNION {[1..n -> AIWarningStrings] : n \in 0..MaxAIWarnings}

RequiredMembers(actions, ws) ==
    <<Member("forecast_summary", Str("AI forecast narrative")),
      Member("season", Str("longRains")),
      Member("crop", Str("maize")),
      Member("actions", actions),
      Member("warnings", ws),
      Member("productivity_tips", Arr(<<"AI tip">>))>>

OptionalMembers ==
    <<Member("soil_ph_analysis", Str("AI soil analysis")),
      Member("growth_stage_advice", Str("AI growth advice")),
      Member("variety_specific_tips", Str("AI variety tips")),
      Member("resources_needed",
             Arr(<<Resource("AI resource", "purpose", "quantity", "cost", "where")>>)),
      Member("possible_diseases", Arr(<<>>))>>

\* The texts the generator can return
AIResponses ==
    \* the full object between noise, with every list of warnings
    {<<Noise, LBrace>> \o RequiredMembers(Arr(<<"AI action">>), Arr(ws)) \o OptionalMembers
        \o <<RBrace, Noise>> : ws \in AIWarningLists}
    \cup
    {\* only the six required members
     <<LBrace>> \o RequiredMembers(Arr(<<"AI action">>), Arr(<<"AI warning: pest pressure">>))
        \o <<RBrace>>,
     \* warnings is a string, resources_needed is null
     <<LBrace>> \o RequiredMembers(Arr(<<>>), Str("beware")) \o
        <<Member("resources_needed", Null), RBrace>>,
     \* actions is the empty string
     <<LBrace>> \o RequiredMembers(Str(""), Arr(<<>>)) \o <<RBrace>>,
     \* no JSON at all, an unclosed object, braces the wrong way round, a malformed object
     <<Noise>>,
     <<LBrace, Noise>>,
     <<RBrace, Noise, LBrace>>,
     <<LBrace, Noise, RBrace>>,
     \* a JSON value between braces the wrong way round
     <<RBrace, JsonText, LBrace>>,
     \* no text in the response
     <<>>}

---------------------------------------------------------------------------
(* generateAdvice, one request *)

\* No function is called on its own while generateAdvice runs
NoCall == [fn |-> "none"]

\* There is no second request
NoRequest == [pc |-> "none"]

\* What the forecast provider can answer: every payload while one request is
\* served; a payload of one storm interval or one without a list while two are
ProviderPayloads(lat, lon) ==
    IF other = NoRequest THEN ForecastPayloads(lat, lon)
    ELSE {Payload(TRUE, <<Point(TRUE, 31015, TRUE, 2000, TRUE, 120)>>, TRUE, lat, lon,
                  "Kigali"),
          Payload(FALSE, <<>>, TRUE, lat, lon, "Kigali")}

\* The texts the generator can return: every text while one request is served;
\* the full object with one warning or a text without JSON while two are
GeneratorTexts ==
    IF other = NoRequest THEN AIResponses
    ELSE {<<Noise, LBrace>>
              \o RequiredMembers(Arr(<<"AI action">>), Arr(<<"AI warning: pest pressure">>))
              \o OptionalMembers \o <<RBrace, Noise>>,
          <<Noise>>}

\* The state when generateAdvice is entered with a request of `requests`
InitWith(requests) ==
    /\ options \in requests
    /\ weatherApiKey \in BOOLEAN
    /\ geminiApiKey \in BOOLEAN
    /\ pc = "start"
    /\ coords = Undefined
    /\ cropType = ""
    /\ additionalData = Undefined
    /\ seasonInfo = Undefined
    /\ forecastSummary = Undefined
    /\ weatherWarnings = <<>>
    /\ useAI = FALSE
    /\ advice = NoAdvice
    /\ error = ""
    /\ forecastCalls = 0
    /\ forecastOutcome = "none"
    /\ generatorCalls = 0
    /\ generatorOutcome = "none"
    /\ generatorText = <<>>
    /\ call = NoCall
    /\ result = <<>>

Init == InitWith(Requests) /\ other = NoRequest

\* A request rejected by a validation step that runs after the forecast call has
\* been started
Reject_AfterFetch ==
    /\ pc = "start"
    /\ ~ValidateRequest(options).ok
    /\ error' = WrapError(ValidateRequest(options).error)
    /\ pc' = "failed"
    /\ forecastCalls' = forecastCalls + 1
    /\ UNCHANGED <<options, weatherApiKey, geminiApiKey, coords, cropType, additionalData,
                   seasonInfo, forecastSummary, weatherWarnings, useAI, advice,
                   forecastOutcome, generatorCalls, generatorOutcome,
                   generatorText, call, result, other>>

\* Lines 38-52, a request that a validation step rejects: the outer catch wraps the
\* error and throws it
Reject ==
    /\ pc = "start"
    /\ ~ValidateRequest(options).ok
    /\ error' = WrapError(ValidateRequest(options).error)
    /\ pc' = "failed"
    /\ UNCHANGED <<options, weatherApiKey, geminiApiKey, coords, cropType, additionalData,
                   seasonInfo, forecastSummary, weatherWarnings, useAI, advice,
                   forecastCalls, forecastOutcome, generatorCalls, generatorOutcome,
                   generatorText, call, result, other>>

\* Lines 38-63, a request that passes validation: the season is read off the clock
\* and the forecast call starts
Accept ==
    /\ pc = "start"
    /\ ValidateRequest(options).ok
    /\ LET v == ValidateRequest(options).value
       IN /\ coords' = v.coords
          /\ cropType' = v.cropType
          /\ additionalData' = v.additionalData
    /\ \E month \in Months : seasonInfo' = detectCurrentSeason(month)
    /\ forecastCalls' = forecastCalls + 1
    /\ pc' = "awaitForecast"
    /\ UNCHANGED <<options, weatherApiKey, geminiApiKey, forecastSummary, weatherWarnings,
                   useAI, advice, error, forecastOutcome, generatorCalls, generatorOutcome,
                   generatorText, call, result, other>>

\* The rule-based path with the merge of the generator path applied to its advice
\* as well
BasicPath_MergedAgain(fs, ai) ==
    IF BasicAdviceThrows(cropType, additionalData)
    THEN /\ error' = WrapError("Unsupported crop type: " \o cropType)
         /\ pc' = "failed"
         /\ UNCHANGED advice
    ELSE /\ advice' = StampMetadata(
                        MergeWarnings(weatherWarnings,
                                      generateBasicSeasonalAdvice(
                                          cropType, Str(seasonInfo.season), fs,
                                          additionalData)),
                        ai, coords, seasonInfo, additionalData)
         /\ pc' = "done"
         /\ UNCHANGED error

\* Lines 104-125: the rule-based advisor produces the advice, the metadata is
\* stamped and the advice returned (an error of the advisor reaches the outer catch)
BasicPath(fs, ai) ==
    IF BasicAdviceThrows(cropType, additionalData)
    THEN /\ error' = WrapError("Unsupported crop type: " \o cropType)
         /\ pc' = "failed"
         /\ UNCHANGED advice
    ELSE /\ advice' = StampMetadata(
                        generateBasicSeasonalAdvice(cropType, Str(seasonInfo.season), fs,
                                                    additionalData),
                        ai, coords, seasonInfo, additionalData)
         /\ pc' = "done"
         /\ UNCHANGED error

\* Lines 83-112 after the forecast step: the warnings are attached, the advice
\* source is decided, and either the generator call starts or the rule-based
\* advisor answers
AfterForecast(fs, ww, outcome) ==
    LET attached == [fs EXCEPT !.warnings = Arr(ww)]
        ai == DecideUseAI(options)
    IN /\ forecastSummary' = attached
       /\ weatherWarnings' = ww
       /\ forecastOutcome' = outcome
       /\ useAI' = ai
       /\ IF ai
          THEN /\ generatorCalls' = generatorCalls + 1
               /\ pc' = "awaitGenerator"
               /\ UNCHANGED <<advice, error>>
          ELSE /\ BasicPath(attached, ai)
               /\ UNCHANGED generatorCalls
       /\ UNCHANGED <<options, weatherApiKey, geminiApiKey, coords, cropType,
                      additionalData, seasonInfo, forecastCalls, generatorOutcome,
                      generatorText, call, result, other>>

\* The forecast step without its catch block: the error reaches the outer catch
ForecastCatch_Rethrow(outcome) ==
    /\ pc' = "failed"
    /\ error' = WrapError("Weather service error")
    /\ forecastOutcome' = outcome
    /\ UNCHANGED <<options, weatherApiKey, geminiApiKey, coords, cropType, additionalData,
                   seasonInfo, forecastSummary, weatherWarnings, useAI, advice,
                   forecastCalls, generatorCalls, generatorOutcome, generatorText,
                   call, result, other>>

\* The catch block of the forecast step (lines 66-81)
ForecastCatch(outcome) == AfterForecast(NeutralSummary(coords.lat, coords.lon), <<>>, outcome)

\* getForecast resolves with a payload; summarizeForecast may still throw
ForecastResolved ==
    /\ pc = "awaitForecast"
    /\ weatherApiKey
    /\ \E payload \in ProviderPayloads(coords.lat, coords.lon) :
          LET r == summarizeForecast(payload)
          IN IF r.ok
             THEN AfterForecast(r.value, generateWeatherWarnings(r.value), "summarized")
             ELSE ForecastCatch("summaryFailed")

\* getForecast throws: no API key, or any provider or network error
ForecastRejected ==
    /\ pc = "awaitForecast"
    /\ ForecastCatch("callFailed")

\* Lines 92-125 after the generator call: the parsed advice with the merged
\* warnings, or the fallback to the rule-based advisor
AfterGenerator(r, text, outcome) ==
    /\ generatorText' = text
    /\ generatorOutcome' = outcome
    /\ IF r.ok
       THEN /\ advice' = StampMetadata(MergeWarnings(weatherWarnings, r.value), useAI,
                                       coords, seasonInfo, additionalData)
            /\ pc' = "done"
            /\ UNCHANGED error
       ELSE BasicPath(forecastSummary, useAI)
    /\ UNCHANGED <<options, weatherApiKey, geminiApiKey, coords, cropType, additionalData,
                   seasonInfo, forecastSummary, weatherWarnings, useAI, forecastCalls,
                   forecastOutcome, generatorCalls, call, result, other>>

\* The generator answers with a text; a response without text or a text that
\* parseAIResponse rejects ends in the catch block
GeneratorResolved ==
    /\ pc = "awaitGenerator"
    /\ \E text \in GeneratorTexts :
          LET r == IF text = <<>> THEN Throw("Invalid response format from Gemini API")
                   ELSE parseAIResponse(text, forecastSummary, seasonInfo.season, cropType,
                                        additionalData)
          IN AfterGenerator(r, text, IF r.ok THEN "parsed" ELSE "unparsable")

\* A failed generator call that is tried once more before the fallback
GeneratorRejected_Retry ==
    /\ pc = "awaitGenerator"
    /\ IF generatorCalls < 2
       THEN /\ generatorCalls' = generatorCalls + 1
            /\ UNCHANGED <<options, weatherApiKey, geminiApiKey, pc, coords, cropType,
                           additionalData, seasonInfo, forecastSummary, weatherWarnings,
                           useAI, advice, error, forecastCalls, forecastOutcome,
                           generatorOutcome, generatorText, call, result, other>>
       ELSE AfterGenerator(Throw("Gemini service error"), <<>>, "rejected")

\* The generator call fails: an HTTP error status, a timeout, a network error
GeneratorRejected ==
    /\ pc = "awaitGenerator"
    /\ AfterGenerator(Throw("Gemini service error"), <<>>, "rejected")

Next ==
    \/ Reject
    \/ Accept
    \/ ForecastResolved
    \/ ForecastRejected
    \/ GeneratorResolved
    \/ GeneratorRejected

Spec == Init /\ [][Next]_vars

\* The locals of the request that is running
Running ==
    [options |-> options, pc |-> pc, coords |-> coords, cropType |-> cropType,
     additionalData |-> additionalData, seasonInfo |-> seasonInfo,
     forecastSummary |-> forecastSummary, weatherWarnings |-> weatherWarnings,
     useAI |-> useAI, advice |-> advice, error |-> error, forecastCalls |-> forecastCalls,
     forecastOutcome |-> forecastOutcome, generatorCalls |-> generatorCalls,
     generatorOutcome |-> generatorOutcome, generatorText |-> generatorText]

\* The locals of a call of generateAdvice(o) that has not begun
NewRequest(o) ==
    [options |-> o, pc |-> "start", coords |-> Undefined, cropType |-> "",
     additionalData |-> Undefined, seasonInfo |-> Undefined, forecastSummary |-> Undefined,
     weatherWarnings |-> <<>>, useAI |-> FALSE, advice |-> NoAdvice, error |-> "",
     forecastCalls |-> 0, forecastOutcome |-> "none", generatorCalls |-> 0,
     generatorOutcome |-> "none", generatorText |-> <<>>]

\* The switch between two requests whose summary is kept in a field of the
\* service object instead of a local: the request that resumes finds the summary
\* the other one left
Switch_SharedSummary ==
    /\ other # NoRequest
    /\ pc \in {"awaitForecast", "awaitGenerator", "done", "failed"}
    /\ other.pc \notin {"done", "failed"}
    /\ other' = Running
    /\ options' = other.options
    /\ pc' = other.pc
    /\ coords' = other.coords
    /\ cropType' = other.cropType
    /\ additionalData' = other.additionalData
    /\ seasonInfo' = other.seasonInfo
    /\ weatherWarnings' = other.weatherWarnings
    /\ useAI' = other.useAI
    /\ advice' = other.advice
    /\ error' = other.error
    /\ forecastCalls' = other.forecastCalls
    /\ forecastOutcome' = other.forecastOutcome
    /\ generatorCalls' = other.generatorCalls
    /\ generatorOutcome' = other.generatorOutcome
    /\ generatorText' = other.generatorText
    /\ UNCHANGED <<weatherApiKey, geminiApiKey, forecastSummary, call, result>>

\* The running request is suspended at an await (or has ended) and the event loop
\* runs the other request; each keeps its locals, the two services are the same
\* objects for both
Switch ==
    /\ other # NoRequest
    /\ pc \in {"awaitForecast", "awaitGenerator", "done", "failed"}
    /\ other.pc \notin {"done", "failed"}
    /\ other' = Running
    /\ options' = other.options
    /\ pc' = other.pc
    /\ coords' = other.coords
    /\ cropType' = other.cropType
    /\ additionalData' = other.additionalData
    /\ seasonInfo' = other.seasonInfo
    /\ forecastSummary' = other.forecastSummary
    /\ weatherWarnings' = other.weatherWarnings
    /\ useAI' = other.useAI
    /\ advice' = other.advice
    /\ error' = other.error
    /\ forecastCalls' = other.forecastCalls
    /\ forecastOutcome' = other.forecastOutcome
    /\ generatorCalls' = other.generatorCalls
    /\ generatorOutcome' = other.generatorOutcome
    /\ generatorText' = other.generatorText
    /\ UNCHANGED <<weatherApiKey, geminiApiKey, call, result>>

\* Two requests: at a location of its own with soil pH and variety, at the default
\* location, and one for an unsupported crop
PairRequests ==
    {[lat |-> Num(125000), lon |-> Num(300000), crop |-> Str("maize"),
      soilPh |-> Num(650), growthState |-> Undefined, variety |-> Str(" sweet_corn "),
      useAI |-> Undefined],
     [lat |-> Undefined, lon |-> Undefined, crop |-> Str("Beans"), soilPh |-> Undefined,
      growthState |-> Str("Flowering"), variety |-> Undefined, useAI |-> Bool(TRUE)],
     [lat |-> Undefined, lon |-> Undefined, crop |-> Str("Wheat"), soilPh |-> Undefined,
      growthState |-> Undefined, variety |-> Undefined, useAI |-> Bool(FALSE)]}

PairInit == InitWith(PairRequests) /\ other \in {NewRequest(o) : o \in PairRequests}

PairNext ==
    \/ Reject
    \/ Accept
    \/ ForecastResolved
    \/ ForecastRejected
    \/ GeneratorResolved
    \/ GeneratorRejected
    \/ Switch

PairSpec == PairInit /\ [][PairNext]_vars

\* Both outbound calls carry a timeout (10 s, 30 s), so an awaited call always
\* resolves or rejects, and the synchronous stretches between awaits always run
FairInit == InitWith(FairRequests) /\ other = NoRequest
FairSpec == FairInit /\ [][Next]_vars /\ WF_vars(Next)

---------------------------------------------------------------------------
(* The functions of the engine called on their own *)

MaxListLen == 18
MinProbePh == 380
MaxProbePh == 870

requestVars ==
    <<options, weatherApiKey, geminiApiKey, pc, coords, cropType, additionalData,
      seasonInfo, forecastSummary, weatherWarnings, useAI, advice, error,
      forecastCalls, forecastOutcome, generatorCalls, generatorOutcome, generatorText>>

\* The members of an object text: pick[k] is the value of key k, undefined for a
\* key the object does not have
RECURSIVE MembersOf(_, _)
MembersOf(keys, pick) ==
    IF Len(keys) = 0 THEN <<>>
    ELSE (IF pick[Head(keys)] = Undefined THEN <<>>
          ELSE <<Member(Head(keys), pick[Head(keys)])>>)
         \o MembersOf(Tail(keys), pick)

StringFields == {"forecast_summary", "season", "crop"}
ArrayFields == {"actions", "warnings", "productivity_tips"}

\* Values a member can have: every JSON type, truthy and falsy
MemberValues ==
    {Arr(<<"item">>), Arr(<<>>), Str("text"), Str(""), Num(7), Num(0), Obj("object"),
     Bool(TRUE), Bool(FALSE), Null}

\* The objects the generator can write: every subset of the required keys present,
\* with empty strings and non-arrays among the values, and each array field with
\* each kind of value beside five well-formed members
ParsePicks ==
    {p \in [StringFields \cup ArrayFields ->
              {Undefined, Str("text"), Str(""), Arr(<<"item">>), Null}] :
        /\ \A k \in StringFields : p[k] \in {Undefined, Str("text"), Str("")}
        /\ \A k \in ArrayFields : p[k] \in {Undefined, Arr(<<"item">>), Str("text"), Null}}
    \cup
    {[k \in StringFields \cup ArrayFields |->
         IF k = f THEN v ELSE IF k \in StringFields THEN Str("text") ELSE Arr(<<"item">>)] :
        f \in ArrayFields, v \in MemberValues}

ParseTexts ==
    {pre \o <<LBrace>> \o MembersOf(requiredFields, p) \o <<RBrace>> \o post :
        p \in ParsePicks, pre \in {<<>>, <<Noise>>}, post \in {<<>>, <<Noise>>}}
    \cup
    {<<>>, <<Noise>>, <<LBrace, Noise>>, <<Noise, RBrace>>, <<LBrace, Noise, RBrace>>,
     <<RBrace, Noise, LBrace>>, <<RBrace, JsonText, LBrace>>,
     <<LBrace, RBrace, Noise, LBrace, RBrace>>}

\* Forecast points: dry, precipitation present and 0, 0.25 mm, 14.99 mm, 15 mm, and
\* a hot storm (20 mm, 12 m/s)
ProbePoints ==
    {Point(TRUE, 29815, FALSE, 0, TRUE, 30),
     Point(TRUE, 29815, TRUE, 0, TRUE, 30),
     Point(TRUE, 29815, TRUE, 25, TRUE, 30),
     Point(TRUE, 29815, TRUE, 1499, TRUE, 30),
     Point(TRUE, 29815, TRUE, 1500, TRUE, 30),
     Point(TRUE, 31015, TRUE, 2000, TRUE, 120)}

\* Lists of up to MaxListLen points that differ in the points 1, 2, 16 and 17
ProbeLists ==
    {[i \in 1..n |-> CASE i = 1 -> a [] i = 2 -> b [] i = 16 -> c [] i = 17 -> d
                       [] OTHER -> Point(TRUE, 29815, FALSE, 0, TRUE, 30)] :
        n \in {0, 1, 2, 4, 15, 16, 17, MaxListLen},
        a \in ProbePoints, b \in ProbePoints, c \in ProbePoints, d \in ProbePoints}

ProbePayloads ==
    {Payload(TRUE, l, TRUE, Num(-19441), Num(300619), "Kigali") : l \in ProbeLists}
    \cup {Payload(TRUE, l, FALSE, Undefined, Undefined, "") :
            l \in {pl \in ProbeLists : Len(pl) <= 1}}
    \cup {Payload(FALSE, <<>>, TRUE, Num(-19441), Num(300619), "Kigali"),
          Payload(FALSE, <<>>, FALSE, Undefined, Undefined, ""),
          Payload(TRUE, <<Point(FALSE, 0, FALSE, 0, FALSE, 0)>>, TRUE,
                  Num(-19441), Num(300619), "Kigali")}

\* Summaries on both sides of every threshold of the warning generator
ProbeSummaries ==
    {[NeutralSummary(Num(-19441), Num(300619)) EXCEPT
         !.maxTemperature = maxT, !.minTemperature = minT, !.maxWindSpeed = wind,
         !.heavyRainHours = heavy, !.totalRainfall = rain, !.rainHours = hours] :
        maxT \in {350, 351, 360}, minT \in {99, 100, 150}, wind \in {19, 20, 39, 40},
        heavy \in {0, 2}, rain \in {0, 5}, hours \in {0, 1}}

Seasons == {"shortDry", "longRains", "longDry", "shortRains"}

\* The summaries the advisor is called with: the neutral one, one of light rain
\* that crosses no threshold, and a wet and windy one with its warnings attached
AdvisorSummaries ==
    {[NeutralSummary(Num(-19441), Num(300619)) EXCEPT !.warnings = Arr(<<>>)],
     NeutralSummary(Num(-19441), Num(300619)),
     [NeutralSummary(Num(-19441), Num(300619)) EXCEPT
         !.totalRainfall = 50, !.rainHours = 2, !.warnings = Arr(<<>>)],
     [NeutralSummary(Num(-19441), Num(300619)) EXCEPT
         !.totalRainfall = 400, !.rainHours = 3, !.heavyRainHours = 2, !.maxWindSpeed = 43,
         !.warnings = Arr(<<DangerousWindWarning(43), HeavyRainWarning(2)>>)]}

AdvisorSoilPh ==
    {Undefined, Num(450), Num(499), Num(500), Num(549), Num(550), Num(600), Num(650),
     Num(651), Num(700), Num(701), Num(750), Num(751), Num(800)}

AdvisorAdditional ==
    [soilPh : AdvisorSoilPh,
     growthState : {Undefined} \cup {Str(g) : g \in GrowthStateNames},
     variety : {Undefined, Str("sweet_corn"), Str("bush_beans"), Str("heirloom"),
                Str("constructor")}]

ParseCalls == {[fn |-> "parseAIResponse", aiResponse |-> t] : t \in ParseTexts}
SummarizeCalls == {[fn |-> "summarizeForecast", forecastData |-> p] : p \in ProbePayloads}
WarningCalls ==
    {[fn |-> "generateWeatherWarnings", forecastSummary |-> fs] : fs \in ProbeSummaries}
AdvisorCalls ==
    [fn : {"generateBasicSeasonalAdvice"}, cropType : CropNames,
     season : {Undefined} \cup {Str(se) : se \in Seasons},
     forecastSummary : AdvisorSummaries, additionalData : AdvisorAdditional]
CategoryCalls ==
    {[fn |-> "getSoilPhCategory", soilPh |-> Num(n)] : n \in MinProbePh..MaxProbePh}

\* The errors axios rejects with: a response with an error status and the message
\* of its body ("" when the body has none), or no response and an error code
AxiosErrors ==
    [response : {TRUE}, status : {400, 401, 403, 404, 429} \cup 500..599,
     message : {"", "Service Unavailable"}, code : {""}]
    \cup [response : {FALSE}, status : {0}, message : {"socket hang up"},
          code : {"ECONNABORTED", "ENOTFOUND", "ECONNRESET"}]

\* The catch block of WeatherService.getForecast: the message of the error thrown
getForecastCatch(e) ==
    LET message == IF e.message = "" THEN "Unknown error" ELSE e.message
    IN IF e.response
       THEN CASE e.status = 401 -> "Invalid OpenWeather API key"
              [] e.status = 404 -> "Location not found"
              [] e.status = 429 -> "OpenWeather API rate limit exceeded"
              [] e.status = 500 -> "OpenWeather API server error"
              [] OTHER -> "OpenWeather API error: " \o message
       ELSE IF e.code = "ECONNABORTED" THEN "OpenWeather API request timeout"
       ELSE IF e.code = "ENOTFOUND" THEN "Unable to connect to OpenWeather API"
       ELSE "Weather service error: " \o e.message

\* The catch block of GeminiService.generateAdvice: the message of the error thrown
generateAdviceCatch(e) ==
    LET message == IF e.message = "" THEN "Unknown error" ELSE e.message
    IN IF e.response
       THEN CASE e.status = 400 -> "Gemini API request error: " \o message
              [] e.status = 401 -> "Invalid Gemini API key"
              [] e.status = 403 -> "Gemini API access denied"
              [] e.status = 429 -> "Gemini API rate limit exceeded"
              [] e.status = 500 -> "Gemini API server error"
              [] OTHER -> "Gemini API error: " \o message
       ELSE IF e.code = "ECONNABORTED" THEN "Gemini API request timeout"
       ELSE "Gemini service error: " \o e.message

CatchCalls == [fn : {"getForecast", "generateAdvice"}, error : AxiosErrors]

\* params.units of the request getForecast sends
getForecastUnits == "metric"

\* main.temp as the provider reports a temperature given in 1/100 degree Celsius:
\* degrees Celsius for units=metric, Kelvin for the provider's default units
ProviderTemp(celsius, units) == IF units = "metric" THEN celsius ELSE celsius + 27315

\* The weather itself: the temperature (1/100 degree Celsius) of each interval
WeatherTemps == {<<2000>>, <<3650>>, <<500>>, <<1234, 2000>>, <<3650, 980>>}

FetchCalls == [fn : {"fetchForecast"}, celsius : WeatherTemps]

\* One function is about to be called; no request is being served
UtilInit ==
    /\ options = [lat |-> Undefined, lon |-> Undefined, crop |-> Undefined,
                  soilPh |-> Undefined, growthState |-> Undefined, variety |-> Undefined,
                  useAI |-> Undefined]
    /\ weatherApiKey = FALSE
    /\ geminiApiKey = FALSE
    /\ pc = "idle"
    /\ coords = Undefined
    /\ cropType = ""
    /\ additionalData = Undefined
    /\ seasonInfo = Undefined
    /\ forecastSummary = Undefined
    /\ weatherWarnings = <<>>
    /\ useAI = FALSE
    /\ advice = NoAdvice
    /\ error = ""
    /\ forecastCalls = 0
    /\ forecastOutcome = "none"
    /\ generatorCalls = 0
    /\ generatorOutcome = "none"
    /\ generatorText = <<>>
    /\ \/ call \in ParseCalls
       \/ call \in SummarizeCalls
       \/ call \in WarningCalls
       \/ call \in AdvisorCalls
       \/ call \in CategoryCalls
       \/ call \in CatchCalls
       \/ call \in FetchCalls
    /\ result = <<>>
    /\ other = NoRequest

CallParseAIResponse ==
    /\ call.fn = "parseAIResponse"
    /\ result = <<>>
    /\ result' = <<parseAIResponse(call.aiResponse, NeutralSummary(Num(0), Num(0)),
                                   "longRains", "maize",
                                   [soilPh |-> Undefined, growthState |-> Undefined,
                                    variety |-> Undefined])>>
    /\ UNCHANGED <<requestVars, call, other>>

CallSummarizeForecast ==
    /\ call.fn = "summarizeForecast"
    /\ result = <<>>
    /\ result' = <<summarizeForecast(call.forecastData)>>
    /\ UNCHANGED <<requestVars, call, other>>

CallGenerateWeatherWarnings ==
    /\ call.fn = "generateWeatherWarnings"
    /\ result = <<>>
    /\ result' = <<generateWeatherWarnings(call.forecastSummary)>>
    /\ UNCHANGED <<requestVars, call, other>>

\* The forecastSummary object as a call of the advisor leaves it, with its warnings
\* list handed to the advice itself instead of being copied into it
SummaryAfterAdvice_SharedWarnings(name, season, fs, additional) ==
    IF fs.warnings = Undefined THEN fs
    ELSE [fs EXCEPT !.warnings =
              generateBasicSeasonalAdvice(name, season, fs, additional).warnings]

\* The forecastSummary object as a call of the advisor leaves it: the function
\* reads its fields and spreads its warnings into the advice's own array
\* (push(...forecastSummary.warnings)); no statement writes to it
SummaryAfterAdvice(name, season, fs, additional) == fs

CallGenerateBasicSeasonalAdvice ==
    /\ call.fn = "generateBasicSeasonalAdvice"
    /\ result = <<>>
    /\ result' = <<IF BasicAdviceThrows(call.cropType, call.additionalData)
                   THEN Throw("Unsupported crop type: " \o call.cropType)
                   ELSE Return(generateBasicSeasonalAdvice(
                                   call.cropType, call.season, call.forecastSummary,
                                   call.additionalData))>>
    /\ call' = [call EXCEPT !.forecastSummary =
                    SummaryAfterAdvice(call.cropType, call.season, call.forecastSummary,
                                       call.additionalData)]
    /\ UNCHANGED <<requestVars, other>>

\* The advisor is called a second time with the same arguments, the summary being
\* the same object as in the first call
CallGenerateBasicSeasonalAdviceAgain ==
    /\ call.fn = "generateBasicSeasonalAdvice"
    /\ Len(result) = 1
    /\ result[1].ok
    /\ result' = Append(result,
                        Return(generateBasicSeasonalAdvice(
                                   call.cropType, call.season, call.forecastSummary,
                                   call.additionalData)))
    /\ call' = [call EXCEPT !.forecastSummary =
                    SummaryAfterAdvice(call.cropType, call.season, call.forecastSummary,
                                       call.additionalData)]
    /\ UNCHANGED <<requestVars, other>>

CallGetSoilPhCategory ==
    /\ call.fn = "getSoilPhCategory"
    /\ result = <<>>
    /\ result' = <<getSoilPhCategory(call.soilPh)>>
    /\ UNCHANGED <<requestVars, call, other>>

\* The axios call of getForecast rejects
CallGetForecast ==
    /\ call.fn = "getForecast"
    /\ result = <<>>
    /\ result' = <<Throw(getForecastCatch(call.error))>>
    /\ UNCHANGED <<requestVars, call, other>>

\* The axios call of GeminiService.generateAdvice rejects
CallGenerateAdvice ==
    /\ call.fn = "generateAdvice"
    /\ result = <<>>
    /\ result' = <<Throw(generateAdviceCatch(call.error))>>
    /\ UNCHANGED <<requestVars, call, other>>

\* The try block of the forecast step: getForecast resolves with the provider's
\* payload for the weather, which is summarized and gets its warnings
CallFetchForecast ==
    /\ call.fn = "fetchForecast"
    /\ result = <<>>
    /\ LET list == [i \in 1..Len(call.celsius) |->
                       Point(TRUE, ProviderTemp(call.celsius[i], getForecastUnits),
                             TRUE, 100, TRUE, 30)]
           r == summarizeForecast(Payload(TRUE, list, TRUE, Num(-19441), Num(300619),
                                          "Kigali"))
       IN result' = <<Return([summary |-> r.value,
                              warnings |-> generateWeatherWarnings(r.value)])>>
    /\ UNCHANGED <<requestVars, call, other>>

UtilNext ==
    \/ CallParseAIResponse
    \/ CallSummarizeForecast
    \/ CallGenerateWeatherWarnings
    \/ CallGenerateBasicSeasonalAdvice
    \/ CallGenerateBasicSeasonalAdviceAgain
    \/ CallGetSoilPhCategory
    \/ CallGetForecast
    \/ CallGenerateAdvice
    \/ CallFetchForecast

UtilSpec == UtilInit /\ [][UtilNext]_vars

---------------------------------------------------------------------------
(* Properties of generateAdvice *)

Returned == pc = "done"
Rejected == pc = "failed"
PastForecast == pc \in {"awaitGenerator", "done"}
GeneratorFailed == generatorOutcome \in {"unparsable", "rejected"}

\* C1: the advice_source tag of a returned advice names the path that produced it:
\* "gemini_ai" only when the parsed response of the generator is the advice
\* returned, "basic_seasonal" whenever the rule-based advisor produced it; a failed
\* generator call or parse ends in a returned advice tagged "basic_seasonal" and
\* in no error.
C1_AdviceSourceReflectsPath ==
    /\ Returned =>
          /\ advice.metadata.advice_source = Str("gemini_ai") => generatorOutcome = "parsed"
          /\ generatorOutcome # "parsed" =>
                advice.metadata.advice_source = Str("basic_seasonal")
    /\ GeneratorFailed => Returned /\ error = ""

\* C2: when the forecast provider call fails, with or without credentials, the
\* request still succeeds, the advice carries a non-empty forecast_summary
\* narrative and metadata.weather_service_available is false.
C2_DegradedForecastFlagged ==
    forecastOutcome = "callFailed" =>
        /\ ~Rejected /\ error = ""
        /\ Returned =>
              /\ advice.forecast_summary.t = "string"
              /\ advice.forecast_summary.s # ""
              /\ advice.metadata.weather_service_available = Bool(FALSE)

\* C3: a request that passes the validation steps always ends with a returned
\* advice, whatever the forecast call and the generator call do, and no error is
\* ever raised for it.
C3_ValidRequestReturnsAdvice ==
    /\ [](ValidateRequest(options).ok => <>Returned)
    /\ [](ValidateRequest(options).ok => ~Rejected /\ error = "")

\* A valid request has returned although the forecast call and the generator both failed
C3_Witness ==
    /\ Returned
    /\ forecastOutcome = "callFailed"
    /\ generatorOutcome = "unparsable"
    /\ generatorText # <<>>
    /\ generatorCalls = 1

\* C4: the generator is called in a request exactly when the caller did not pass
\* useAI === false and the generator has credentials; otherwise it is never called
\* and the returned advice is the rule-based advisor's.
C4_GeneratorCalledIffEnabled ==
    LET wanted == options.useAI # Bool(FALSE) /\ geminiApiKey
    IN /\ generatorCalls > 0 => wanted
       /\ PastForecast /\ wanted => generatorCalls = 1
       /\ ~wanted => pc # "awaitGenerator" /\ generatorOutcome = "none"
       /\ Returned /\ ~wanted =>
             advice = StampMetadata(
                        generateBasicSeasonalAdvice(cropType, Str(seasonInfo.season),
                                                    forecastSummary, additionalData),
                        FALSE, coords, seasonInfo, additionalData)

\* The generator was called for a request that left useAI out
C4_Witness ==
    /\ Returned
    /\ options.useAI = Undefined
    /\ generatorCalls = 1

LatInRange(v) == v.t = "number" /\ v.n >= -900000 /\ v.n <= 900000
LonInRange(v) == v.t = "number" /\ v.n >= -1800000 /\ v.n <= 1800000
Supplied(v) == v # Undefined

\* C5: when lat and lon are both supplied and in range the resolved location is
\* exactly (lat, lon); when one is supplied and a supplied value is out of range
\* or not a number the request fails with the invalid-coordinates error; the
\* default location is used only when neither is supplied.
C5_CoordinateResolution ==
    LET lat == options.lat
        lon == options.lon
        bothInRange == Supplied(lat) /\ Supplied(lon) /\ LatInRange(lat) /\ LonInRange(lon)
        someInvalid == \/ Supplied(lat) /\ ~LatInRange(lat)
                       \/ Supplied(lon) /\ ~LonInRange(lon)
    IN pc # "start" =>
          /\ bothInRange /\ ~Rejected => coords = [lat |-> lat, lon |-> lon]
          /\ bothInRange => error # WrapError("Invalid coordinates provided")
          /\ someInvalid => Rejected /\ error = WrapError("Invalid coordinates provided")
          /\ ~Rejected /\ coords = getDefaultCoordinates =>
                ~Supplied(lat) /\ ~Supplied(lon)

SoilPhValid(v) == v.t = "number" /\ v.n >= 400 /\ v.n <= 850
GrowthStateValid(v) == v.t = "string" /\ ToLowerCase(v.s) \in GrowthStateNames
VarietyValid(v) == v.t = "string" /\ Trim(v.s) # ""

\* C6: each supplied additional parameter has its own check and a violation
\* rejects the request with the error of that field: soilPh a number in
\* [4.0, 8.5], growthState one of the four stages, variety a non-empty string; a
\* request is accepted only if every supplied parameter passes, and an absent
\* parameter is left out of the validated params.
C6_AdditionalParamsValidated ==
    LET ph == options.soilPh
        gs == options.growthState
        va == options.variety
        phBad == Supplied(ph) /\ ~SoilPhValid(ph)
        gsBad == Supplied(gs) /\ ~GrowthStateValid(gs)
        vaBad == Supplied(va) /\ ~VarietyValid(va)
    IN pc # "start"
       /\ validateAndSetCoordinates(options.lat, options.lon).ok
       /\ ValidateCrop(options.crop).ok =>
          /\ phBad => Rejected /\ error = WrapError(SoilPhMessage)
          /\ ~phBad /\ gsBad => Rejected /\ error = WrapError(GrowthStateMessage)
          /\ ~phBad /\ ~gsBad /\ vaBad => Rejected /\ error = WrapError(VarietyMessage)
          /\ ~Rejected =>
                /\ ~Supplied(ph) => additionalData.soilPh = Undefined
                /\ ~Supplied(gs) => additionalData.growthState = Undefined
                /\ ~Supplied(va) => additionalData.variety = Undefined

\* The message of the first check a request violates, the checks taken in the order
\* coordinates, crop presence, crop support, soilPh, growthState, variety, or ""
FirstViolatedMessage(opts) ==
    IF \/ Supplied(opts.lat) /\ ~LatInRange(opts.lat)
       \/ Supplied(opts.lon) /\ ~LonInRange(opts.lon)
    THEN "Invalid coordinates provided"
    ELSE IF ~Supplied(opts.crop)
    THEN "Crop type is required"
    ELSE IF ToLowerCase(opts.crop.s) \notin CropNames
    THEN "Unsupported crop type: " \o ToLowerCase(opts.crop.s)
         \o ". Supported crops: maize, beans, potatoes, bananas"
    ELSE IF Supplied(opts.soilPh) /\ ~SoilPhValid(opts.soilPh)
    THEN SoilPhMessage
    ELSE IF Supplied(opts.growthState) /\ ~GrowthStateValid(opts.growthState)
    THEN GrowthStateMessage
    ELSE IF Supplied(opts.variety) /\ ~VarietyValid(opts.variety)
    THEN VarietyMessage
    ELSE ""

\* C7: a rejected request fails with one error whose message is the wrapper
\* prefix followed by the message of the first violated check, in the order
\* coordinates, crop presence, crop support, soilPh, growthState, variety; no
\* advice is produced for it.
C7_FirstViolationWrapped ==
    Rejected =>
        /\ FirstViolatedMessage(options) # ""
        /\ error = "Failed to generate advice: " \o FirstViolatedMessage(options)
        /\ advice = NoAdvice

\* C8: from step 6 on, the warnings attached to the forecast summary are the
\* warning generator's output for that summary, for the provider's summary and
\* for the neutral substitute alike (the neutral summary carries the no-rain
\* advisory).
C8_WarningsAreGeneratorOutput ==
    PastForecast => forecastSummary.warnings = Arr(generateWeatherWarnings(forecastSummary))

\* The warnings member of the generator's text as parseAIResponse returns it
GeneratorWarnings ==
    parseAIResponse(generatorText, forecastSummary, seasonInfo.season, cropType,
                    additionalData).value.warnings.a

\* C9: when the generator path succeeds, the warnings of the returned advice are
\* the forecast summary's warnings in their order followed by the generator's
\* warnings in their order, nothing dropped or reordered.
C9_WarningsPrepended ==
    Returned /\ generatorOutcome = "parsed" =>
        advice.warnings = Arr(forecastSummary.warnings.a \o GeneratorWarnings)

\* The generator path succeeded with two forecast warnings and two generator warnings
C9_Witness ==
    /\ Returned
    /\ generatorOutcome = "parsed"
    /\ Len(forecastSummary.warnings.a) >= 2
    /\ Len(GeneratorWarnings) = 2
    /\ GeneratorWarnings[1] # GeneratorWarnings[2]

ListFields == {"actions", "resources_needed", "possible_diseases", "warnings",
               "productivity_tips"}

\* C10: every returned advice, from the rule-based advisor or from the parsed
\* response, has its list fields as arrays and its three narrative fields as
\* strings, empty when the parameter was not supplied.
C10_AdviceShape ==
    Returned =>
        /\ \A f \in ListFields : advice[f].t = "array"
        /\ advice.soil_ph_analysis.t = "string"
        /\ advice.growth_stage_advice.t = "string"
        /\ advice.variety_specific_tips.t = "string"
        /\ additionalData.soilPh = Undefined => advice.soil_ph_analysis = Str("")
        /\ additionalData.growthState = Undefined => advice.growth_stage_advice = Str("")
        /\ additionalData.variety = Undefined => advice.variety_specific_tips = Str("")

---------------------------------------------------------------------------
(* Properties of the functions *)

Called(fn) == call.fn = fn /\ result # <<>>

\* The substring from the first "{" to the last "}" of a text, <<>> without one
BracedSpan(text) ==
    LET first == IndexOf(text, LBrace)
        last == LastIndexOf(text, RBrace)
    IN IF first > 0 /\ last >= first THEN SubSeq(text, first, last) ELSE <<>>

\* The keys an object text has
KeysOf(span) == {span[i].k : i \in {j \in 1..Len(span) : span[j].c = "field"}}

\* The required fields an object text does not have, in their order
AbsentFields(span) == SelectSeq(requiredFields, LAMBDA f : f \notin KeysOf(span))

IncompleteResponse(fields) ==
    "Failed to parse AI response: Missing required fields in AI response: "
    \o JoinFields(fields)

\* C11: for a text whose braced span parses as an object, parseAIResponse fails with
\* the incomplete-response error, naming exactly the absent fields, if and only if
\* one of the six required keys is absent from the object; an object with all six
\* keys is accepted whatever their values.
C11_IncompleteIffKeyAbsent ==
    Called("parseAIResponse") /\ IsJsonObject(BracedSpan(call.aiResponse)) =>
        LET absent == AbsentFields(BracedSpan(call.aiResponse))
        IN /\ Len(absent) > 0 =>
                ~result[1].ok /\ result[1].error = IncompleteResponse(absent)
           /\ Len(absent) = 0 => result[1].ok

\* The value an object text gives key k (that of its last member with the key)
ValueOf(span, k) ==
    LET at == {i \in 1..Len(span) : span[i].c = "field" /\ span[i].k = k}
    IN span[CHOOSE i \in at : \A j \in at : j <= i].v

\* C12: when an object with the six required keys has actions, warnings or
\* productivity_tips present and not an array (a string, number, object, boolean or
\* null), parseAIResponse succeeds and returns that field as an empty array; after
\* any successful parse the three fields are arrays.
C12_NonArraysCoerced ==
    Called("parseAIResponse") =>
        LET span == BracedSpan(call.aiResponse)
            nonArrays == {f \in ArrayFields : ValueOf(span, f).t # "array"}
        IN /\ IsJsonObject(span) /\ Len(AbsentFields(span)) = 0 /\ nonArrays # {} =>
                /\ result[1].ok
                /\ \A f \in nonArrays : result[1].value[f] = Arr(<<>>)
           /\ result[1].ok => \A f \in ArrayFields : result[1].value[f].t = "array"

NoStructuredPayload == "Failed to parse AI response: No JSON found in AI response"
MalformedPayload == "Failed to parse AI response: Unexpected token"

\* C13: parseAIResponse takes as payload the substring from the first "{" to the
\* last "}": the text before and after it does not change the result; it fails with
\* the no-structured-payload error exactly when the text has no "{" or no "}", and
\* with the malformed-payload error exactly when that substring is not parseable.
C13_PayloadIsBracedSpan ==
    Called("parseAIResponse") =>
        LET text == call.aiResponse
            span == BracedSpan(text)
            noBrace == IndexOf(text, LBrace) = 0 \/ LastIndexOf(text, RBrace) = 0
            failsWith(msg) == ~result[1].ok /\ result[1].error = msg
        IN /\ failsWith(NoStructuredPayload) <=> noBrace
           /\ failsWith(MalformedPayload) <=> ~noBrace /\ ~IsJsonObject(span)
           /\ span # <<>> =>
                result[1] = parseAIResponse(span, NeutralSummary(Num(0), Num(0)),
                                            "longRains", "maize",
                                            [soilPh |-> Undefined, growthState |-> Undefined,
                                             variety |-> Undefined])

InvalidForecastData == "Invalid forecast data received"

Finite(t) == t # NegInfinity /\ t # PosInfinity

\* C14: summarizeForecast fails with the invalid-forecast-data error for every
\* payload without forecast points (no list, or an empty one) or without a location,
\* returns a summary only for a payload with at least one point and a location, and
\* never returns a summary whose temperatures are not finite.
C14_InvalidForecastRejected ==
    Called("summarizeForecast") =>
        LET p == call.forecastData
            noPoints == ~p.hasList \/ Len(p.list) = 0
        IN /\ noPoints \/ ~p.hasCity =>
                ~result[1].ok /\ result[1].error = InvalidForecastData
           /\ result[1].ok =>
                /\ ~noPoints /\ p.hasCity
                /\ Finite(result[1].value.maxTemperature)
                /\ Finite(result[1].value.minTemperature)

\* The points summarizeForecast is meant to read: the first 16
First16(list) == SubSeq(list, 1, IF Len(list) < 16 THEN Len(list) ELSE 16)

\* The sum of the precipitation values that are present, in 1/100 mm
RECURSIVE RainSum(_)
RainSum(list) ==
    IF Len(list) = 0 THEN 0
    ELSE (IF Head(list).hasRain THEN Head(list).rain ELSE 0) + RainSum(Tail(list))

RainyPoints(list) == {i \in 1..Len(list) : list[i].hasRain /\ list[i].rain > 0}
HeavyPoints(list) == {i \in 1..Len(list) : list[i].hasRain /\ list[i].rain >= 1500}

\* Points after the 16th change no field, and the two counts are those of the
\* points with precipitation > 0 and >= 15 mm among the first 16
CountsOverFirst16 ==
    LET l == First16(call.forecastData.list)
    IN /\ result[1] = summarizeForecast([call.forecastData EXCEPT !.list = l])
       /\ result[1].value.rainHours = Cardinality(RainyPoints(l))
       /\ result[1].value.heavyRainHours = Cardinality(HeavyPoints(l))

\* C15: summarizeForecast reads only the first 16 points, and over those
\* totalRainfall equals the sum of the precipitation values present, rainHours the
\* number of points with precipitation > 0 and heavyRainHours the number of points
\* with precipitation >= 15.
C15_RainTotals ==
    Called("summarizeForecast") /\ result[1].ok =>
        /\ CountsOverFirst16
        /\ result[1].value.totalRainfall * 10 = RainSum(First16(call.forecastData.list))

\* C15 as amended: summarizeForecast reads only the first 16 points, and over those
\* totalRainfall equals the sum of the precipitation values present rounded to one
\* decimal (Math.round of ten times the sum, over ten), rainHours the number of points with precipitation > 0 and
\* heavyRainHours the number of points with precipitation >= 15.
C15_RainTotalsRounded ==
    Called("summarizeForecast") /\ result[1].ok =>
        /\ CountsOverFirst16
        /\ LET sum == RainSum(First16(call.forecastData.list))
               total == result[1].value.totalRainfall * 10
           IN total - 5 <= sum /\ sum < total + 5

\* A list of 17 points was summarized: 0.25 mm in the first, exactly 15 mm in the
\* 16th and a storm in the 17th
C15_Witness ==
    /\ Called("summarizeForecast") /\ result[1].ok
    /\ Len(call.forecastData.list) = 17
    /\ call.forecastData.list[1].rain = 25
    /\ call.forecastData.list[16].rain = 1500
    /\ call.forecastData.list[17].rain = 2000
    /\ result[1].value.heavyRainHours = 1

\* The kind of a warning text of the summary fs
KindOf(w, fs) ==
    CASE w = HighTemperatureWarning(fs.maxTemperature) -> "high-temperature"
      [] w = LowTemperatureWarning(fs.minTemperature) -> "low-temperature"
      [] w = DangerousWindWarning(fs.maxWindSpeed) -> "wind-danger"
      [] w = WindWarning(fs.maxWindSpeed) -> "wind-warning"
      [] w = HeavyRainWarning(fs.heavyRainHours) -> "heavy-rain"
      [] w = NoRainWarning -> "no-rain"
      [] OTHER -> "unknown"

\* The place of a kind in the order of emission (the two wind wordings share one)
RankOf(kind) ==
    CASE kind = "high-temperature" -> 1
      [] kind = "low-temperature" -> 2
      [] kind \in {"wind-danger", "wind-warning"} -> 3
      [] kind = "heavy-rain" -> 4
      [] kind = "no-rain" -> 5
      [] OTHER -> 0

\* C16: the list generateWeatherWarnings returns for a summary is a subsequence of
\* [high-temperature, low-temperature, wind, heavy-rain, no-rain], with each kind at
\* most once and exactly when its condition holds: max temperature > 35, min
\* temperature < 10, max wind >= 20 (the danger wording from 40 on, the warning
\* wording below, never both), heavyRainHours > 0, totalRainfall = 0 and rainHours = 0.
C16_WarningsInOrder ==
    Called("generateWeatherWarnings") =>
        LET fs == call.forecastSummary
            ws == result[1]
            kinds == [i \in 1..Len(ws) |-> KindOf(ws[i], fs)]
            has(kind) == \E i \in 1..Len(ws) : kinds[i] = kind
        IN /\ \A i \in 1..Len(ws) : RankOf(kinds[i]) > 0
           /\ \A i, j \in 1..Len(ws) : i < j => RankOf(kinds[i]) < RankOf(kinds[j])
           /\ has("high-temperature") <=> fs.maxTemperature > 350
           /\ has("low-temperature") <=> fs.minTemperature < 100
           /\ has("wind-danger") <=> fs.maxWindSpeed >= 40
           /\ has("wind-warning") <=> fs.maxWindSpeed >= 20 /\ fs.maxWindSpeed < 40
           /\ has("heavy-rain") <=> fs.heavyRainHours > 0
           /\ has("no-rain") <=> fs.totalRainfall = 0 /\ fs.rainHours = 0

\* A summary of 36 degrees without rain got the high-temperature and the no-rain
\* warning as two entries
C16_Witness ==
    /\ Called("generateWeatherWarnings")
    /\ call.forecastSummary.maxTemperature = 360
    /\ call.forecastSummary.maxWindSpeed = 19
    /\ call.forecastSummary.minTemperature = 150
    /\ result[1] = <<HighTemperatureWarning(360), NoRainWarning>>

\* The advisor was called with one of the four seasons
SeasonPassed == call.season \in {Str(se) : se \in Seasons}

\* C17: for each of the four seasons and each of the four crops, every forecast
\* summary and every combination of the optional parameters, the rule-based
\* advisor returns an advice whose actions list is non-empty and whose season and
\* crop fields are the season and the crop passed in.
C17_SeasonAndCropEchoed ==
    Called("generateBasicSeasonalAdvice") /\ SeasonPassed =>
        /\ result[1].ok
        /\ Len(result[1].value.actions.a) > 0
        /\ result[1].value.season = call.season
        /\ result[1].value.crop = Str(call.cropType)

\* Beans in the short rains under light rain, no optional parameter given: the
\* three actions of the season are all the advice has
C17_Witness ==
    /\ Called("generateBasicSeasonalAdvice")
    /\ call.season = Str("shortRains")
    /\ call.cropType = "beans"
    /\ call.forecastSummary.totalRainfall = 50
    /\ call.additionalData =
           [soilPh |-> Undefined, growthState |-> Undefined, variety |-> Undefined]
    /\ result[1].ok
    /\ result[1].value.season = Str("shortRains")
    /\ result[1].value.crop = Str("beans")
    /\ result[1].value.actions =
           Arr(<<"Take advantage of moisture for planting",
                 "Prepare for the upcoming dry season",
                 "Harvest crops before heavy rains">>)

\* The three actions the season block adds for a season
SeasonActions(se) == SeasonFragment(Str(se)).actions

\* The actions of the advice include, in order and next to each other, the three
\* actions of season se
IncludesSeasonActions(actions, se) ==
    \E i \in 1..Len(actions) :
        i + 2 <= Len(actions) /\ SubSeq(actions, i, i + 2) = SeasonActions(se)

SeasonOmitted == call.season = Undefined

\* C18: called with a valid crop and a summary but without a season, the advisor
\* uses the current-season lookup: whatever the month, the season field of the
\* advice is the season of that month and the actions include its three actions.
C18_SeasonDefaultsToCurrent ==
    Called("generateBasicSeasonalAdvice") /\ SeasonOmitted =>
        /\ result[1].ok
        /\ \E month \in 1..12 :
              LET current == detectCurrentSeason(month).season
              IN /\ result[1].value.season = Str(current)
                 /\ IncludesSeasonActions(result[1].value.actions.a, current)

\* C18 as the code has it: called without a season the advisor looks nothing up;
\* the season field of the advice is undefined and no action of any season's
\* block is among the actions.
C18_OmittedSeasonStaysUndefined ==
    Called("generateBasicSeasonalAdvice") /\ SeasonOmitted =>
        /\ result[1].ok
        /\ result[1].value.season = Undefined
        /\ \A se \in Seasons : \A i \in 1..Len(result[1].value.actions.a) :
              \A j \in 1..3 : result[1].value.actions.a[i] # SeasonActions(se)[j]

\* Beans under light rain without a season and without optional parameters: the
\* advice has no season and no action at all
C18_Witness ==
    /\ Called("generateBasicSeasonalAdvice")
    /\ SeasonOmitted
    /\ call.cropType = "beans"
    /\ call.forecastSummary.totalRainfall = 50
    /\ call.additionalData =
           [soilPh |-> Undefined, growthState |-> Undefined, variety |-> Undefined]
    /\ result[1].ok
    /\ result[1].value.season = Undefined
    /\ result[1].value.actions = Arr(<<>>)

\* The advice of the same call without the soil pH
WithoutSoilPh ==
    generateBasicSeasonalAdvice(call.cropType, call.season, call.forecastSummary,
                                [call.additionalData EXCEPT !.soilPh = Undefined])

\* list is front followed by back
Prepends(list, front, back) == list = front \o back

\* list is back with n entries put in front of it
Grew(list, n, back) ==
    Len(list) = Len(back) + n /\ SubSeq(list, n + 1, Len(list)) = back

SuitableTip(name, soilPh) ==
    "Soil pH " \o FormatPh(soilPh) \o " is optimal for " \o name \o " growth"

\* The number of tips the pH category adds: one for a pH with a category
CategoryTips(soilPh) == IF getSoilPhCategory(soilPh) = "" THEN 0 ELSE 1

LimeAction == "Consider adding lime to raise soil pH"
SulfurAction == "Consider adding sulfur or organic matter to lower soil pH"

\* Every entry of the soil block, for any pH it may be given
SoilEntries(name) ==
    UNION {LET fr == SoilPhFragment(name, ph)
           IN {fr.actions[i] : i \in 1..Len(fr.actions)}
              \cup {fr.warnings[i] : i \in 1..Len(fr.warnings)}
              \cup {fr.tips[i] : i \in 1..Len(fr.tips)} : ph \in AdvisorSoilPh \ {Undefined}}

\* C19: for every crop and every supplied soil pH the advisor takes the pH as
\* suitable exactly when min <= pH <= max of the crop; below min it puts one
\* warning and the lime action in front of the advice's lists, above max one
\* warning and the sulfur/organic-matter action, and within the range one
\* productivity tip for the suitability (followed by the tip of the pH category, if
\* the pH has one) and no warning or action; in the three cases soil_ph_analysis is
\* a non-empty narrative; without a soil pH none of these entries is in the advice
\* and the narrative is empty.
C19_SoilPhSuitability ==
    Called("generateBasicSeasonalAdvice") =>
        LET soilPh == call.additionalData.soilPh
            range == CropSoilPh(call.cropType)
            adv == result[1].value
            base == WithoutSoilPh
        IN /\ result[1].ok
           /\ soilPh # Undefined /\ soilPh.n < range.min =>
                /\ Grew(adv.warnings.a, 1, base.warnings.a)
                /\ Prepends(adv.actions.a, <<LimeAction>>, base.actions.a)
                /\ Grew(adv.productivity_tips.a, CategoryTips(soilPh), base.productivity_tips.a)
                /\ adv.soil_ph_analysis.s # ""
           /\ soilPh # Undefined /\ soilPh.n > range.max =>
                /\ Grew(adv.warnings.a, 1, base.warnings.a)
                /\ Prepends(adv.actions.a, <<SulfurAction>>, base.actions.a)
                /\ Grew(adv.productivity_tips.a, CategoryTips(soilPh), base.productivity_tips.a)
                /\ adv.soil_ph_analysis.s # ""
           /\ soilPh # Undefined /\ range.min <= soilPh.n /\ soilPh.n <= range.max =>
                /\ adv.warnings = base.warnings
                /\ adv.actions = base.actions
                /\ Grew(adv.productivity_tips.a, 1 + CategoryTips(soilPh),
                        base.productivity_tips.a)
                /\ adv.productivity_tips.a[1] = SuitableTip(call.cropType, soilPh)
                /\ adv.soil_ph_analysis.s # ""
           /\ soilPh = Undefined =>
                /\ adv.soil_ph_analysis.s = ""
                /\ \A x \in SoilEntries(call.cropType) :
                      /\ \A i \in 1..Len(adv.actions.a) : adv.actions.a[i] # x
                      /\ \A i \in 1..Len(adv.warnings.a) : adv.warnings.a[i] # x
                      /\ \A i \in 1..Len(adv.productivity_tips.a) :
                            adv.productivity_tips.a[i] # x

\* Potatoes at pH 6.51, just above their range and in no pH category, got one
\* warning and the sulfur action in front of the rest, and no tip
C19_Witness ==
    /\ Called("generateBasicSeasonalAdvice")
    /\ call.cropType = "potatoes"
    /\ call.additionalData.soilPh = Num(651)
    /\ result[1].ok
    /\ Len(result[1].value.warnings.a) = Len(WithoutSoilPh.warnings.a) + 1
    /\ result[1].value.actions.a[1] = SulfurAction
    /\ result[1].value.productivity_tips = WithoutSoilPh.productivity_tips
    /\ result[1].value.soil_ph_analysis.s # ""

\* The six bands as config.soilPhCategories prints their ranges, in 1/100 pH
PhBands ==
    <<[lo |-> 400, hi |-> 500, description |-> "Very acidic soil, may need lime application"],
      [lo |-> 510, hi |-> 600, description |-> "Acidic soil, suitable for acid-loving crops"],
      [lo |-> 610, hi |-> 650, description |-> "Slightly acidic, good for most crops"],
      [lo |-> 660, hi |-> 730, description |-> "Neutral pH, optimal for most crops"],
      [lo |-> 740, hi |-> 780, description |-> "Slightly alkaline, may need acidification"],
      [lo |-> 790, hi |-> 850, description |-> "Alkaline soil, may limit nutrient availability"]>>

\* C20: the category lookup partitions the accepted range: every pH in [4.0, 8.5],
\* in steps of 0.01, gets the category of one of the six bands (that of the band
\* it lies in), and every pH outside [4.0, 8.5] gets no category.
C20_BandsCoverRange ==
    Called("getSoilPhCategory") =>
        LET n == call.soilPh.n
        IN /\ n >= 400 /\ n <= 850 =>
                /\ \E b \in 1..6 : result[1] = PhBands[b].description
                /\ \A b \in 1..6 :
                      PhBands[b].lo <= n /\ n <= PhBands[b].hi =>
                          result[1] = PhBands[b].description
           /\ n < 400 \/ n > 850 => result[1] = ""

CalledTwice(fn) == call.fn = fn /\ Len(result) = 2

Content(adv) == [adv EXCEPT !.metadata = NoMetadata]

ForecastFailed == forecastOutcome \in {"callFailed", "summaryFailed"}

\* C22: within one request the orchestrator makes at most one forecast call and at
\* most one generator call and repeats neither; the generator call starts only
\* after the forecast step has finished, with the summary of the payload or the
\* neutral one; the step in which a call fails selects the fallback at once: the
\* neutral summary for the forecast, the rule-based advisor for the generator.
C22_OneAttemptEach ==
    /\ [](/\ forecastCalls <= 1
          /\ generatorCalls <= 1
          /\ generatorCalls = 1 => /\ forecastCalls = 1
                                   /\ forecastOutcome # "none"
                                   /\ forecastSummary # Undefined)
    /\ [][/\ forecastCalls' >= forecastCalls
          /\ generatorCalls' >= generatorCalls
          /\ forecastCalls' > forecastCalls => pc = "start"
          /\ generatorCalls' > generatorCalls => pc = "awaitForecast"
          /\ pc = "awaitForecast" /\ ForecastFailed' =>
                /\ forecastCalls' = forecastCalls
                /\ pc' # "awaitForecast"
                /\ forecastSummary' =
                       [NeutralSummary(coords.lat, coords.lon) EXCEPT !.warnings = Arr(<<>>)]
          /\ pc = "awaitGenerator" /\ GeneratorFailed' =>
                /\ generatorCalls' = generatorCalls
                /\ pc' \in {"done", "failed"}
                /\ pc' = "done" =>
                      Content(advice') =
                          generateBasicSeasonalAdvice(cropType, Str(seasonInfo.season),
                                                      forecastSummary, additionalData)]_vars

\* A request whose forecast call and generator call both failed was answered
\* after one attempt at each
C22_Witness ==
    /\ Returned
    /\ forecastOutcome = "callFailed"
    /\ generatorOutcome = "rejected"
    /\ forecastCalls = 1
    /\ generatorCalls = 1

\* The requests in flight or ended: the running one and, if there is one, the other
RequestsServed == {Running} \cup ({other} \ {NoRequest})

\* The summaries, warnings attached, that request r has when run alone with the
\* outcome of the forecast step it had
AloneSummaries(r) ==
    LET c == ValidateRequest(r.options).value.coords
    IN IF r.forecastOutcome = "summarized"
       THEN {[summarizeForecast(p).value EXCEPT
                 !.warnings = Arr(generateWeatherWarnings(summarizeForecast(p).value))] :
                p \in {q \in ProviderPayloads(c.lat, c.lon) : summarizeForecast(q).ok}}
       ELSE {[NeutralSummary(c.lat, c.lon) EXCEPT !.warnings = Arr(<<>>)]}

\* The advice request r returns when run alone with summary fs and the generator
\* outcome it had
AloneAdvice(r, fs) ==
    LET v == ValidateRequest(r.options).value
        unstamped ==
            IF r.generatorOutcome = "parsed"
            THEN MergeWarnings(fs.warnings.a,
                               parseAIResponse(r.generatorText, fs, r.seasonInfo.season,
                                               v.cropType, v.additionalData).value)
            ELSE generateBasicSeasonalAdvice(v.cropType, Str(r.seasonInfo.season), fs,
                                             v.additionalData)
    IN StampMetadata(unstamped, DecideUseAI(r.options), v.coords, r.seasonInfo,
                     v.additionalData)

\* C23: of two requests that interleave at their awaits, each returns the advice
\* it returns when run alone with the same provider outcomes; the service objects
\* are never changed, and the locals of a request (its summary among them) change
\* only in its own steps: a step that changes the suspended request's locals is
\* the switch, which makes them the running ones as they are.
C23_RequestsIndependent ==
    /\ [](\A r \in RequestsServed :
            r.pc = "done" => \E fs \in AloneSummaries(r) : r.advice = AloneAdvice(r, fs))
    /\ [][/\ weatherApiKey' = weatherApiKey
          /\ geminiApiKey' = geminiApiKey
          /\ other' # other => other' = Running /\ Running' = other]_vars

\* The request at its own location has returned an advice of the generator while
\* the request at the default location, begun in between, still awaits its
\* generator call
C23_Witness ==
    /\ other # NoRequest
    /\ pc = "done"
    /\ options.lat = Num(125000)
    /\ generatorOutcome = "parsed"
    /\ forecastOutcome = "summarized"
    /\ other.pc = "awaitGenerator"
    /\ other.options.crop = Str("Beans")
    /\ other.forecastOutcome = "callFailed"

\* The kinds of error of the two clients
ForecastKinds ==
    [invalidKey |-> "Invalid OpenWeather API key", notFound |-> "Location not found",
     rateLimited |-> "OpenWeather API rate limit exceeded",
     serverError |-> "OpenWeather API server error",
     timeout |-> "OpenWeather API request timeout"]

GeneratorKinds ==
    [invalidKey |-> "Invalid Gemini API key", accessDenied |-> "Gemini API access denied",
     rateLimited |-> "Gemini API rate limit exceeded",
     serverError |-> "Gemini API server error", timeout |-> "Gemini API request timeout"]

StatusIs(n) == call.error.response /\ call.error.status = n
ServerStatus == call.error.response /\ call.error.status \in 500..599
TimedOut == ~call.error.response /\ call.error.code = "ECONNABORTED"
Thrown == result[1].error

\* C24: both clients map a provider failure to an error kind by its HTTP status,
\* the kinds being pairwise distinct: for the forecast provider 401, 404, 429 and
\* every status from 500 to 599, the latter all to the server-error kind; for the
\* generator 400, 401, 403, 429 and every status from 500 to 599 likewise; a
\* timeout of the client maps to a kind that no status maps to.
C24_StatusKinds ==
    /\ Called("getForecast") =>
          /\ StatusIs(401) <=> Thrown = ForecastKinds.invalidKey
          /\ StatusIs(404) <=> Thrown = ForecastKinds.notFound
          /\ StatusIs(429) <=> Thrown = ForecastKinds.rateLimited
          /\ ServerStatus <=> Thrown = ForecastKinds.serverError
          /\ TimedOut <=> Thrown = ForecastKinds.timeout
    /\ Called("generateAdvice") =>
          /\ StatusIs(400) <=>
                Thrown \in {"Gemini API request error: " \o m :
                               m \in {"Unknown error", "Service Unavailable"}}
          /\ StatusIs(401) <=> Thrown = GeneratorKinds.invalidKey
          /\ StatusIs(403) <=> Thrown = GeneratorKinds.accessDenied
          /\ StatusIs(429) <=> Thrown = GeneratorKinds.rateLimited
          /\ ServerStatus <=> Thrown = GeneratorKinds.serverError
          /\ TimedOut <=> Thrown = GeneratorKinds.timeout

\* The largest and the smallest entry of a non-empty sequence of numbers
MaxOf(seq) == CHOOSE x \in {seq[i] : i \in 1..Len(seq)} : \A i \in 1..Len(seq) : seq[i] <= x
MinOf(seq) == CHOOSE x \in {seq[i] : i \in 1..Len(seq)} : \A i \in 1..Len(seq) : seq[i] >= x

\* C25: the unit getForecast asks the provider for is the unit summarizeForecast
\* converts from: a forecast fetched and summarized has as maxTemperature and
\* minTemperature the real temperatures in degrees Celsius rounded to one decimal,
\* so that a forecast of 20 degrees Celsius gets no low-temperature warning and no
\* 'low_temperature' tag.
C25_UnitsAgree ==
    Called("fetchForecast") =>
        LET fs == result[1].value.summary
        IN /\ fs.maxTemperature = MathRound(MaxOf(call.celsius), 10)
           /\ fs.minTemperature = MathRound(MinOf(call.celsius), 10)
           /\ call.celsius = <<2000>> =>
                /\ \A i \in 1..Len(result[1].value.warnings) :
                      result[1].value.warnings[i] # LowTemperatureWarning(fs.minTemperature)
                /\ \A i \in 1..Len(fs.conditions) : fs.conditions[i] # "low_temperature"

Tagged(fs, tag) == \E i \in 1..Len(fs.conditions) : fs.conditions[i] = tag

\* C26: in every summary summarizeForecast returns, the count of windy intervals
\* agrees with the maximum wind: maxWindSpeed (km/h) >= 20, the wind warning
\* threshold, exactly when windHours >= 1, exactly when the 'wind' tag is present;
\* the wind warning of generateWeatherWarnings and the wind block of the advisor,
\* both decided by maxWindSpeed >= 20, thus go with the tag.
C26_WindHoursMatchMaxWind ==
    Called("summarizeForecast") /\ result[1].ok =>
        LET fs == result[1].value
        IN /\ fs.maxWindSpeed >= 20 <=> fs.windHours >= 1
           /\ fs.windHours >= 1 <=> Tagged(fs, "wind")
           /\ Tagged(fs, "wind") <=>
                \E i \in 1..Len(generateWeatherWarnings(fs)) :
                    generateWeatherWarnings(fs)[i] \in {WindWarning(fs.maxWindSpeed),
                                                        DangerousWindWarning(fs.maxWindSpeed)}

Count(b) == IF b THEN 1 ELSE 0

\* The number of weather conditions of the weather block that hold for a summary
WeatherConditions(fs) ==
    Count(fs.totalRainfall = 0) + Count(fs.heavyRainHours > 0) + Count(fs.maxWindSpeed >= 20)

PhUnsuitable(name, soilPh) ==
    soilPh # Undefined
    /\ (soilPh.n < CropSoilPh(name).min \/ soilPh.n > CropSoilPh(name).max)

\* The variety is a key of the crop's map and has low drought resistance
LowResistance(name, variety) ==
    /\ variety # Undefined
    /\ variety.s \in DOMAIN CropVarieties(name)
    /\ CropVarieties(name)[variety.s].droughtResistance = "low"

\* C27: for every valid input the sizes of the advisor's lists are fixed by the
\* steps that fire: resources_needed has 2 (season) + w + 2 (crop) entries and
\* possible_diseases 2, w being the number of weather conditions that hold
\* (totalRainfall = 0, heavyRainHours > 0, maxWindSpeed >= 20); actions has
\* 3 (season) + 2w entries, plus 1 for an unsuitable soil pH, plus 2 for a growth
\* stage, plus 1 for a variety of low drought resistance when totalRainfall is 0.
C27_ListSizes ==
    Called("generateBasicSeasonalAdvice") /\ SeasonPassed =>
        LET adv == result[1].value
            fs == call.forecastSummary
            add == call.additionalData
            w == WeatherConditions(fs)
        IN /\ result[1].ok
           /\ Len(adv.resources_needed.a) = 2 + w + 2
           /\ Len(adv.possible_diseases.a) = 2
           /\ Len(adv.actions.a) =
                 3 + 2 * w + Count(PhUnsuitable(call.cropType, add.soilPh))
                 + 2 * Count(add.growthState # Undefined)
                 + Count(LowResistance(call.cropType, add.variety) /\ fs.totalRainfall = 0)

\* Maize of the variety sweet_corn in flower at pH 5.0 in the long rains, under the
\* neutral summary (no rain): 9 actions and 5 resources
C27_Witness ==
    /\ Called("generateBasicSeasonalAdvice")
    /\ call.season = Str("longRains")
    /\ call.cropType = "maize"
    /\ call.additionalData =
           [soilPh |-> Num(500), growthState |-> Str("flowering"),
            variety |-> Str("sweet_corn")]
    /\ call.forecastSummary.totalRainfall = 0
    /\ result[1].ok
    /\ Len(result[1].value.actions.a) = 9
    /\ Len(result[1].value.resources_needed.a) = 5
    /\ Len(result[1].value.possible_diseases.a) = 2

\* The advice of the same call without the variety
WithoutVariety ==
    generateBasicSeasonalAdvice(call.cropType, call.season, call.forecastSummary,
                                [call.additionalData EXCEPT !.variety = Undefined])

\* The variety is a key of the variety map of the crop
VarietyOfCrop(name, variety) ==
    variety # Undefined /\ variety.s \in DOMAIN CropVarieties(name)

\* C28: the variety step of the advisor. For a variety that is a key of the crop's
\* variety map it appends exactly two tips and sets variety_specific_tips, and it
\* appends one more warning and one irrigation action exactly when the drought
\* resistance of the variety is "low" and totalRainfall is 0; for no variety or one
\* that is no key of the crop's map it adds nothing, leaves variety_specific_tips
\* empty, and the advisor does not fail.
C28_VarietyStep ==
    Called("generateBasicSeasonalAdvice") =>
        LET adv == result[1].value
            base == WithoutVariety
            variety == call.additionalData.variety
            dry == /\ LowResistance(call.cropType, variety)
                   /\ call.forecastSummary.totalRainfall = 0
        IN /\ result[1].ok
           /\ VarietyOfCrop(call.cropType, variety) =>
                /\ Len(adv.productivity_tips.a) = Len(base.productivity_tips.a) + 2
                /\ adv.variety_specific_tips.s # ""
                /\ Len(adv.warnings.a) = Len(base.warnings.a) + Count(dry)
                /\ Len(adv.actions.a) = Len(base.actions.a) + Count(dry)
                /\ dry =>
                     \E i \in 1..Len(adv.actions.a) :
                         adv.actions.a[i] = "Increase irrigation frequency for this variety"
           /\ ~VarietyOfCrop(call.cropType, variety) =>
                /\ adv.productivity_tips = base.productivity_tips
                /\ adv.warnings = base.warnings
                /\ adv.actions = base.actions
                /\ adv.variety_specific_tips.s = ""

NoOutboundCall == forecastCalls = 0 /\ generatorCalls = 0

\* C29: validation precedes every outbound call: when generateAdvice rejects a
\* request (invalid coordinates, missing or unsupported crop, invalid additional
\* parameter), neither the forecast provider nor the generator has been called at
\* the moment the error is raised, nor is either called afterwards.
C29_ValidationBeforeCalls ==
    /\ [](Rejected /\ ~ValidateRequest(options).ok => NoOutboundCall)
    /\ [][~Rejected /\ Rejected' /\ ~ValidateRequest(options).ok =>
            NoOutboundCall /\ NoOutboundCall']_vars

\* A request for an unsupported crop was rejected with both services configured
\* and neither called
C29_Witness ==
    /\ Rejected
    /\ options.crop = Str("Wheat")
    /\ options.lat = Undefined
    /\ options.lon = Undefined
    /\ error = WrapError(ValidateRequest(options).error)
    /\ weatherApiKey
    /\ geminiApiKey
    /\ NoOutboundCall

\* How often x occurs in a sequence
Occurrences(seq, x) == Cardinality({i \in 1..Len(seq) : seq[i] = x})

OnceEach(ws, seq) == \A i \in 1..Len(ws) : Occurrences(seq, ws[i]) = 1

\* C30: the forecast warnings are merged into the returned advice exactly once on
\* every path: after a generator call that was attempted and failed the warnings
\* of the advice are those of the rule-based advisor alone, each forecast warning
\* occurring once in them; after a generator call that succeeded they are the
\* forecast warnings followed by the warnings of the parsed response.
C30_WarningsMergedOnce ==
    Returned /\ generatorCalls = 1 =>
        /\ GeneratorFailed =>
              /\ advice.warnings =
                     generateBasicSeasonalAdvice(cropType, Str(seasonInfo.season),
                                                 forecastSummary, additionalData).warnings
              /\ OnceEach(weatherWarnings, advice.warnings.a)
        /\ generatorOutcome = "parsed" =>
              advice.warnings.a =
                  weatherWarnings
                  \o parseAIResponse(generatorText, forecastSummary, seasonInfo.season,
                                     cropType, additionalData).value.warnings.a

\* A request with two forecast warnings whose generator call failed returned
\* each of the two once
C30_Witness ==
    /\ Returned
    /\ generatorCalls = 1
    /\ generatorOutcome = "rejected"
    /\ Len(weatherWarnings) >= 2
    /\ OnceEach(weatherWarnings, advice.warnings.a)

====
